---- MODULE Spec2Model ----
(***************************************************************************)
(* A model of the pyFSRS experiment orchestration engine: the controller   *)
(* (the wx main loop, which runs one handler at a time), the Experiment    *)
(* base class, the scan threads of the DAQScan, DAQStats, FSRSScan2,       *)
(* XCScan and FSRSAcquire experiments, and the devices they drive.         *)
(*                                                                         *)
(* All experiment modules live in one module list and share the state.     *)
(* The specifications differ in what the user operates:                    *)
(*   Spec         DAQScan and DAQStats side by side (experiment lifecycle);*)
(*   SpecFSRS     FSRSScan2 and the files it writes;                       *)
(*   SpecRef      FSRSScan2 with a reference input and failing devices;    *)
(*   SpecXC       XCScan;                                                  *)
(*   SpecAcquire  FSRSAcquire and its accumulator;                         *)
(*   SpecCalc     the utility functions, ModProp.setValue, initialize and  *)
(*                PIXIS100.readNframes, applied to drawn arguments;        *)
(*   SpecProp     one ModProp object under its methods;                    *)
(*   SpecLabels   one FSRSModule object and the lookup by label;           *)
(*   SpecQuit     DAQStats and the closing of the main window;             *)
(*   SpecGrid     the grid search of GridOptimize2D over two valves;       *)
(*   SpecStepper  the NIStepper motor and its threads (SpecStepperLive     *)
(*                with fair scheduling of the threads);                    *)
(*   SpecPoints   DAQScan with the scan points the controller holds;       *)
(*   SpecShutter  the NIShutter output device.                             *)
(***************************************************************************)
EXTENDS Integers, Sequences, FiniteSets, TLC

\* ------------------------------------------------------------------------
\* Bounds of the model
\* ------------------------------------------------------------------------

\* largest number of scan points / samples of one scan
MaxPoints == 2

\* largest number of threads the experiment modules spawn in one behaviour
MaxStarts == 2

\* largest number of scans FSRS Scan 2 or XC Scan start in one behaviour
MaxScans == 1

\* delay positions are integers counting 1/PosDen femtoseconds
PosDen == 2

\* largest value of '# of Sets' of FSRSAcquire
MaxAcquireSets == 3

\* largest value of '# of Sets'
MaxSets == 2

\* ------------------------------------------------------------------------
\* Labels are sequences of characters, so that the substring search of
\* getPropertyByLabel is computed and not assumed.
\* ------------------------------------------------------------------------

Upper == <<"A", "B", "C", "D", "E", "F", "G", "H", "I", "J", "K", "L", "M",
           "N", "O", "P", "Q", "R", "S", "T", "U", "V", "W", "X", "Y", "Z">>

Lowercase == <<"a", "b", "c", "d", "e", "f", "g", "h", "i", "j", "k", "l", "m",
               "n", "o", "p", "q", "r", "s", "t", "u", "v", "w", "x", "y", "z">>

\* str.lower() on one character
LowerChar(c) ==
    IF \E i \in 1..26 : Upper[i] = c
    THEN Lowercase[CHOOSE i \in 1..26 : Upper[i] = c]
    ELSE c

\* str.lower()
lower(s) == [i \in 1..Len(s) |-> LowerChar(s[i])]

\* str.find(sub) != -1
contains(s, sub) ==
    \E i \in 0..(Len(s) - Len(sub)) :
        \A j \in 1..Len(sub) : s[i + j] = sub[j]

L_start == <<"s", "t", "a", "r", "t">>

L_type == <<"t", "y", "p", "e">>

L_mode == <<"m", "o", "d", "e">>

L_wait == <<"w", "a", "i", "t">>

\* ------------------------------------------------------------------------
\* The module list handed to every module's initialize(others)
\* ------------------------------------------------------------------------

DummyAxisProps ==
    << [label |-> <<"A", "x", "i", "s">>, type |-> "label", value |-> ""],
       [label |-> <<"P", "o", "s", "i", "t", "i", "o", "n">>, type |-> "input", value |-> "0.0"],
       [label |-> <<"S", "p", "e", "e", "d">>, type |-> "choice", value |-> "0"] >>

DummyShutterProps ==
    << [label |-> <<"S", "l", "o", "p", "e">>, type |-> "choice", value |-> "0"],
       [label |-> <<"C", "o", "n", "t", "r", "o", "l">>, type |-> "toggle", value |-> "0"] >>

DummyCameraProps ==
    << [label |-> <<"P", "h", "a", "s", "e", " ", "F", "l", "i", "p">>, type |-> "choice", value |-> "0"] >>

DummySensorProps ==
    << [label |-> <<"A", "m", "p", "l", "i", "t", "u", "d", "e">>, type |-> "input", value |-> "0.0"],
       [label |-> <<"O", "f", "f", "s", "e", "t">>, type |-> "input", value |-> "0.0"],
       [label |-> <<"W", "a", "i", "t", " ", "T", "i", "m", "e", " ", "(", "s", ")">>, type |-> "input", value |-> "0"],
       [label |-> <<"F", "u", "n", "c", "t", "i", "o", "n">>, type |-> "choice", value |-> "0"] >>

DAQScanProps ==
    << [label |-> <<"D", "A", "Q">>, type |-> "choice", value |-> "0"],
       [label |-> <<"A", "x", "i", "s">>, type |-> "choice", value |-> "0"],
       [label |-> <<"F", "r", "o", "m", " ", "(", "f", "s", ")">>, type |-> "input", value |-> "-500"],
       [label |-> <<"T", "i", "l", "l", " ", "(", "f", "s", ")">>, type |-> "input", value |-> "2500"],
       [label |-> <<"S", "t", "e", "p", " ", "S", "i", "z", "e", " ", "(", "f", "s", ")">>, type |-> "input", value |-> "20"],
       [label |-> <<"M", "o", "d", "e">>, type |-> "choice", value |-> "0"],
       [label |-> <<"R", "a", "n", "d", "o", "m">>, type |-> "checkbox", value |-> "0"],
       [label |-> <<"U", "s", "e", " ", "F", "i", "l", "e">>, type |-> "file", value |-> ""],
       [label |-> <<"S", "a", "v", "e", " ", "S", "c", "a", "n">>, type |-> "button", value |-> "Save"],
       [label |-> <<"P", "r", "o", "g", "r", "e", "s", "s">>, type |-> "progress", value |-> "0"],
       [label |-> <<"S", "t", "a", "r", "t">>, type |-> "button", value |-> "Scan"] >>

DAQStatsProps ==
    << [label |-> <<"D", "A", "Q">>, type |-> "choice", value |-> "0"],
       [label |-> <<"#", " ", "o", "f", " ", "P", "o", "i", "n", "t", "s">>, type |-> "spin", value |-> "100"],
       [label |-> <<"P", "r", "o", "g", "r", "e", "s", "s">>, type |-> "progress", value |-> "0"],
       [label |-> <<"S", "a", "v", "e">>, type |-> "button", value |-> "Save Last Scan"],
       [label |-> <<"S", "t", "a", "r", "t">>, type |-> "button", value |-> "Scan"] >>

FSRSScan2Props ==
    << [label |-> <<"C", "a", "m", "e", "r", "a">>, type |-> "choice", value |-> "0"],
       [label |-> <<"T", "y", "p", "e">>, type |-> "choice", value |-> "0"],
       [label |-> <<"#", " ", "o", "f", " ", "F", "r", "a", "m", "e", "s">>, type |-> "spin", value |-> "2000"],
       [label |-> <<"A", "x", "i", "s">>, type |-> "choice", value |-> "0"],
       [label |-> <<"F", "r", "o", "m", " ", "(", "f", "s", ")">>, type |-> "input", value |-> "-500"],
       [label |-> <<"T", "i", "l", "l", " ", "(", "f", "s", ")">>, type |-> "input", value |-> "2500"],
       [label |-> <<"S", "t", "e", "p", " ", "S", "i", "z", "e", " ", "(", "f", "s", ")">>, type |-> "input", value |-> "20"],
       [label |-> <<"M", "o", "d", "e">>, type |-> "choice", value |-> "0"],
       [label |-> <<"R", "a", "n", "d", "o", "m">>, type |-> "checkbox", value |-> "0"],
       [label |-> <<"U", "s", "e", " ", "F", "i", "l", "e">>, type |-> "file", value |-> ""],
       [label |-> <<"S", "h", "u", "t", "t", "e", "r">>, type |-> "choice", value |-> "0"],
       [label |-> <<"T", "a", "k", "e", " ", "R", "e", "f", ".">>, type |-> "choice", value |-> "0"],
       [label |-> <<"#", " ", "o", "f", " ", "S", "e", "t", "s">>, type |-> "spin", value |-> "1"],
       [label |-> <<"B", "a", "s", "e", "n", "a", "m", "e">>, type |-> "input", value |-> ""],
       [label |-> <<"O", "u", "t", "p", "u", "t", " ", "P", "a", "t", "h">>, type |-> "file", value |-> "."],
       [label |-> <<"P", "r", "o", "g", "r", "e", "s", "s">>, type |-> "progress", value |-> "0"],
       [label |-> <<"S", "t", "a", "t", "u", "s">>, type |-> "label", value |-> ""],
       [label |-> <<"S", "t", "a", "r", "t">>, type |-> "button", value |-> "Scan"] >>

FSRSAcquireProps ==
    << [label |-> <<"C", "a", "m", "e", "r", "a">>, type |-> "choice", value |-> "0"],
       [label |-> <<"M", "o", "d", "e">>, type |-> "choice", value |-> "0"],
       [label |-> <<"#", " ", "o", "f", " ", "F", "r", "a", "m", "e", "s">>, type |-> "spin", value |-> "8000"],
       [label |-> <<"#", " ", "o", "f", " ", "S", "e", "t", "s">>, type |-> "spin", value |-> "1"],
       [label |-> <<"P", "r", "o", "g", "r", "e", "s", "s">>, type |-> "progress", value |-> "0"],
       [label |-> <<"S", "a", "v", "e", " ", "L", "a", "s", "t">>, type |-> "button", value |-> "Save"],
       [label |-> <<"S", "t", "a", "r", "t">>, type |-> "button", value |-> "Acquire"] >>

XCScanProps ==
    << [label |-> <<"C", "a", "m", "e", "r", "a">>, type |-> "choice", value |-> "0"],
       [label |-> <<"T", "y", "p", "e">>, type |-> "choice", value |-> "3"],
       [label |-> <<"#", " ", "o", "f", " ", "F", "r", "a", "m", "e", "s">>, type |-> "spin", value |-> "100"],
       [label |-> <<"A", "x", "i", "s">>, type |-> "choice", value |-> "0"],
       [label |-> <<"F", "r", "o", "m", " ", "(", "f", "s", ")">>, type |-> "input", value |-> "-300"],
       [label |-> <<"T", "i", "l", "l", " ", "(", "f", "s", ")">>, type |-> "input", value |-> "300"],
       [label |-> <<"S", "t", "e", "p", " ", "S", "i", "z", "e", " ", "(", "f", "s", ")">>, type |-> "input", value |-> "20"],
       [label |-> <<"M", "o", "d", "e">>, type |-> "choice", value |-> "0"],
       [label |-> <<"R", "a", "n", "d", "o", "m">>, type |-> "checkbox", value |-> "0"],
       [label |-> <<"U", "s", "e", " ", "F", "i", "l", "e">>, type |-> "file", value |-> ""],
       [label |-> <<"S", "h", "u", "t", "t", "e", "r">>, type |-> "choice", value |-> "0"],
       [label |-> <<"S", "a", "v", "e", " ", "L", "a", "s", "t">>, type |-> "button", value |-> "Save"],
       [label |-> <<"P", "r", "o", "g", "r", "e", "s", "s">>, type |-> "progress", value |-> "0"],
       [label |-> <<"S", "t", "a", "r", "t">>, type |-> "button", value |-> "Scan"],
       [label |-> <<"F", "i", "t">>, type |-> "button", value |-> "Fit"] >>
\* pyFSRS.modules: the devices and the experiment modules
ModuleList ==
    << [name |-> "Dummy Axis", type |-> "axis", props |-> DummyAxisProps],
       [name |-> "Dummy Shutter", type |-> "output", props |-> DummyShutterProps],
       [name |-> "Dummy Camera", type |-> "input", props |-> DummyCameraProps],
       [name |-> "Dummy Sensor", type |-> "input", props |-> DummySensorProps],
       [name |-> "DAQ Scan", type |-> "experiment", props |-> DAQScanProps],
       [name |-> "DAQ Stats", type |-> "experiment", props |-> DAQStatsProps],
       [name |-> "FSRS Scan 2", type |-> "experiment", props |-> FSRSScan2Props],
       [name |-> "XC Scan", type |-> "experiment", props |-> XCScanProps],
       [name |-> "FSRS Acquire", type |-> "experiment", props |-> FSRSAcquireProps] >>

Modules == 1..Len(ModuleList)

Exps == {m \in Modules : ModuleList[m].type = "experiment"}

PropIdx(m) == 1..Len(ModuleList[m].props)

IsDAQScan(e) == ModuleList[e].name = "DAQ Scan"
IsDAQStats(e) == ModuleList[e].name = "DAQ Stats"
IsFSRSScan2(e) == ModuleList[e].name = "FSRS Scan 2"
IsXCScan(e) == ModuleList[e].name = "XC Scan"
IsFSRSAcquire(e) == ModuleList[e].name = "FSRS Acquire"

\* FSRSModule.getPropertyByLabel: index of the first property whose lowered
\* label contains the lowered query; 0 stands for the ValueError raised when
\* there is none.
getPropertyByLabel(m, label) ==
    LET hits == {i \in PropIdx(m) :
                    contains(lower(ModuleList[m].props[i].label), lower(label))}
    IN  IF hits = {} THEN 0
        ELSE CHOOSE i \in hits : \A j \in hits : i <= j

\* FSRSModule.propindex after the first lookup of "start": module -> index
propindex_start == [m \in Modules |-> getPropertyByLabel(m, L_start)]

\* FSRSModule.propindex after the first lookup of "type": module -> index
propindex_type == [m \in Modules |-> getPropertyByLabel(m, L_type)]

\* FSRSModule.propindex after the first lookup of "mode": module -> index
propindex_mode == [m \in Modules |-> getPropertyByLabel(m, L_mode)]

\* FSRSModule.propindex after the first lookup of "wait": module -> index
propindex_wait == [m \in Modules |-> getPropertyByLabel(m, L_wait)]

\* FSRSModule.propindex after the first lookup of "take ref.": module -> index
propindex_ref ==
    [m \in Modules |-> getPropertyByLabel(m, <<"t", "a", "k", "e", " ", "r", "e", "f", ".">>)]

\* FSRSModule.hasProperty("wait")
hasProperty_wait(m) == propindex_wait[m] # 0

\* the module whose 'Wait Time (s)' property the state holds
DummySensor == CHOOSE d \in Modules : ModuleList[d].name = "Dummy Sensor"

\* FSRSScan2.inputs after initialize: the modules of type input, in list order
inputs == SelectSeq([i \in 1..Len(ModuleList) |-> i],
                    LAMBDA m : ModuleList[m].type = "input")

\* ------------------------------------------------------------------------
\* Scan points
\* ------------------------------------------------------------------------

\* contents (first column) of the text file 'Use File' names; "" is no file
FileColumn(usefile) == IF usefile = "delays.txt" THEN [i \in 1..MaxPoints |-> 3 - i] ELSE <<>>

\* The stage settings the model draws from: linear settings as
\* onAxisRangeChange leaves them (till = from + (N - 1) * step), and 'from
\* file' with and without a file.
StageSettings ==
    {[mode |-> 0, from |-> 1, till |-> 1 + (c - 1) * 1, step |-> 1, random |-> r, usefile |-> ""] :
        c \in 2..MaxPoints, r \in {0, 1}}
    \cup {[mode |-> 2, from |-> 1, till |-> 2, step |-> 1, random |-> 0, usefile |-> f] :
        f \in {"", "delays.txt"}}

\* a linear setting whose points are less than 1 fs apart
FineSettings ==
    {[mode |-> 0, from |-> PosDen, till |-> PosDen + 1, step |-> 1, random |-> 0, usefile |-> ""]}

Abs(x) == IF x < 0 THEN -x ELSE x

Max(a, b) == IF a >= b THEN a ELSE b

\* np.linspace(start, stop, N) for N >= 2 (exact on the settings above)
linspace(start, stop, N) == [i \in 1..N |-> start + ((i - 1) * (stop - start)) \div (N - 1)]

\* drawing n of n points with replacement
Resamples(n) == [1..n -> 1..n]

\* the orders np.random.shuffle can leave n points in
Shuffles(n) == {p \in [1..n -> 1..n] : \A i, j \in 1..n : p[i] = p[j] => i = j}

\* FSRSutils.prepareScanPoints, the shuffle being the permutation perm
\* (mode 1, logarithmic, is not among the settings of this model)
prepareScanPoints(st, perm) ==
    LET points ==
            IF st.mode = 0
            THEN linspace(st.from, st.till,
                          Max(2, Abs(st.till - st.from) \div Abs(st.step) + 1))
            ELSE IF st.usefile # "" THEN FileColumn(st.usefile)
            ELSE <<>>
    IN  IF st.random = 1 THEN [i \in 1..Len(points) |-> points[perm[i]]] ELSE points

\* the point lists onStart can obtain from prepareScanPoints
ScanPointLists ==
    UNION { {prepareScanPoints(st, perm) :
                perm \in Shuffles(Len(prepareScanPoints([st EXCEPT !.random = 0], <<>>)))} :
            st \in StageSettings }

\* the stage settings of FSRSScan2 the model draws from
FSRSStageSettings == StageSettings \cup FineSettings

\* the stage properties of FSRSScan2 the user has entered when the model starts
\* (the defaults of the program, -500 to 2500 fs in steps of 20 fs, give 151 points)
InitialStage == [mode |-> 0, from |-> 1, till |-> 2, step |-> 1, random |-> 0, usefile |-> ""]

\* np.sort(points)
np_sort(points) == SortSeq(points, LAMBDA a, b : a < b)

\* ------------------------------------------------------------------------
\* File names
\* ------------------------------------------------------------------------

Digit(d) == <<"0", "1", "2", "3", "4", "5", "6", "7", "8", "9">>[d + 1]

\* str(n) of an integer n >= 0
RECURSIVE str(_)
str(n) == IF n < 10 THEN <<Digit(n)>> ELSE Append(str(n \div 10), Digit(n % 10))

\* int(step) of a position counted in 1/PosDen fs: truncation towards zero
int(step) == IF step >= 0 THEN step \div PosDen ELSE -((-step) \div PosDen)

\* the value of the 'Basename' input joined with the output path
Basename == <<"r", "u", "n">>

\* FSRSutils.formatFSRSFilename that writes a sign for every step
formatFSRSFilename_signed(type, basename, step, set, shutter) ==
    LET sign == IF step > 0 THEN <<"p">> ELSE <<"m">>
        kind == IF type = 0
                THEN (IF shutter = 0 THEN <<"g", "r">> ELSE <<"e", "x", "c">>)
                ELSE <<"_">>
    IN  basename \o <<"_">> \o sign \o str(Abs(int(step))) \o kind \o str(set)

\* FSRSutils.formatFSRSFilename(type, basename, step, set, shutter)
formatFSRSFilename(type, basename, step, set, shutter) ==
    LET sign == IF step > 0 THEN <<"p">>
                ELSE IF step < 0 THEN <<"m">>
                ELSE IF step = 0 /\ (shutter = 1 \/ type = 1) THEN <<"m">>
                ELSE <<>>
        kind == IF type = 0
                THEN (IF shutter = 0 THEN <<"g", "r">> ELSE <<"e", "x", "c">>)
                ELSE <<"_">>
    IN  basename \o <<"_">> \o sign \o str(Abs(int(step))) \o kind \o str(set)

\* the function FSRSScan2.onUpdate and FSRSAcquire.onUpdate apply to the
\* ratio channel A when the value they branch on is mode
transform(mode) ==
    IF mode = 0 THEN "-ln(A)" ELSE IF mode = 1 THEN "-log10(A)" ELSE "A"

\* ------------------------------------------------------------------------
\* State
\* ------------------------------------------------------------------------

VARIABLES
    scanThread,   \* Experiment.scanThread: 0 is None, k > 0 the k-th thread the module created
    running,      \* Experiment.running
    btnOldLabel,  \* Experiment.btnOldLabel
    threads,      \* per experiment, the thread objects it created, in creation order
    queue,        \* the calls posted with wx.CallAfter, not yet processed
    enabled,      \* per module and property, whether the widget is enabled
    handleLabel,  \* per module and property, the label the widget shows
    plotWnd,      \* per experiment: "None", "Frame" (open window) or "Dead" (closed by the user)
    data,         \* per experiment, the values collected (self.data)
    bg,           \* XCScan.bg: <<>> is [], <<v>> the background frame v
    typeChoice,   \* per experiment, the selection of its 'Type' choice widget
    stage,        \* FSRSScan2: the values of its stage properties (Mode, From, Till, ...)
    refChoice,    \* FSRSScan2: the selection of 'Take Ref.', 0 is "No"
    saved,        \* FSRSScan2: the data files onUpdate has written, in the order written
    timepoints,   \* FSRSScan2: the contents of basename_timepoints.txt
    scanPoints,   \* DAQScan.points, the points the controller pairs the data with
                  \* (followed in SpecPoints only)
    progress,     \* FSRSScan2: progress_iterator and the value of the 'Progress' gauge
    acq,          \* FSRSAcquire: its mode property and the fields N, data, intdata
    calc,         \* the last application of a utility function: arguments and result
    modProp,      \* one ModProp object: its fields and the outcome of the last call
    mod,          \* one FSRSModule object: the labels of its properties, propindex
    app,          \* the main window: whether it is destroyed, and what closing it did
    grid,         \* one GridSearchThread, its two valves and what it has posted
    motor,        \* NIStepper: the selected motor, its move threads, the calls they posted
    nishutter,    \* NIShutter: lastState, slope, its channel, slope and control widgets
    refWait,      \* the value of the 'Wait Time (s)' property of the Dummy Sensor
    axisGoto,     \* the axis: <<>> before any command, <<x>> after goto(x)
    axisMoving,   \* what Axis.is_moving() returns
    shutterWrite, \* the shutter: <<>> before any command, <<v>> after write(v)
    lastCall      \* history: the handler the controller processed last; val is 1 when
                  \* an onStart reached Experiment.start with the handle set, or an
                  \* onUpdate found the plot window closed

vars == <<scanThread, running, btnOldLabel, threads, queue, enabled, handleLabel,
          plotWnd, data, bg, typeChoice, stage, refChoice, saved, timepoints, scanPoints, progress, acq,
          calc, modProp, mod, app, grid, motor, nishutter, refWait, axisGoto, axisMoving, shutterWrite, lastCall>>

\* ModProp.__init__: type "label", value "", no choices, info "", no widget
\* (handle names the type the widget was created for) and no event handler.
\* History of the last method call: call, its argument arg, whether arg
\* equalled the stored value (same), whether it raised ValueError, and how
\* often it made the widget call the event handler (fired)
ModProp_init ==
    [type |-> "label", value |-> [k |-> "str", v |-> ""], choices |-> 0,
     info |-> [s |-> "", lo |-> 0, hi |-> 0], handle |-> "None", event |-> FALSE,
     bound |-> FALSE, fired |-> 0, call |-> "__init__", arg |-> [k |-> "none", v |-> 0],
     same |-> FALSE, raised |-> FALSE]

\* the most properties the module object of SpecLabels gets
MaxProps == 2

\* the labels given to the properties of that module
PropLabels == {<<"A", "d", "r">>, <<"C", "O", "M">>, <<"d">>}

\* the labels looked up in that module
Queries == {<<"a", "d", "r">>, <<"D">>, <<"c", "o", "m">>}

\* FSRSModule.__init__: no properties, nothing memorised (propindex maps a
\* label to 0 when it is no key of the dictionary, and to i for the i-th
\* property). History of the last lookup: call, the label asked for, and the
\* result found (0: ValueError or False, i: the i-th property or True)
FSRSModule_init ==
    [labels |-> <<>>, propindex |-> [q \in Queries |-> 0], call |-> "__init__",
     label |-> <<>>, found |-> 0]

\* the main window after startup: not destroyed, no shutdown hook called.
\* History of the last close event: call, and for the canQuit of DAQ Stats
\* the state of its scan thread when it was called (scan), the answer given
\* to its message box, what it returned (result), and whether the thread had
\* left run() by then (joined); vetoed tells that the close was stopped.
\* joining is the experiment whose thread onQuit is waiting for, or 0
pyFSRSApp_init ==
    [destroyed |-> FALSE, shutdown |-> <<>>, call |-> "__init__", scan |-> "-",
     answer |-> "-", result |-> "-", joined |-> FALSE, vetoed |-> FALSE, joining |-> 0]

\* a call posted with wx.CallAfter(self.parent.fn, val)
Call(fn, e, val) == [fn |-> fn, exp |-> e, val |-> val]

NoCall == Call("none", 0, 0)

\* a thread object right after its constructor: the arguments it keeps and
\* the local variables of run().  History: sawStopped, the thread has seen
\* is_moving() return False since its last goto; blind, the thread has read
\* a value at a scan point without that; taken[i], the number of readings of
\* the reference input taken at points[i].  reference_data[i] is the sum kept
\* at points[i] and divisor the number it was divided by (1 before the
\* division), so that the array holds reference_data[i] / divisor.
NewThread(argv) ==
    [pc |-> "run", canQuit |-> FALSE, points |-> argv.points, n |-> argv.n,
     sets |-> argv.sets, type |-> argv.type,
     cset |-> 0, cpoint |-> 0, sawStopped |-> FALSE, blind |-> FALSE,
     reference |-> argv.reference, old_wait_time |-> "unset",
     reference_data |-> [i \in 1..Len(argv.points) |-> 0], divisor |-> 1,
     taken |-> [i \in 1..Len(argv.points) |-> 0]]

Argv(points, n, sets, type) ==
    [points |-> points, n |-> n, sets |-> sets, type |-> type, reference |-> 0]

\* threading.Thread.is_alive(): from start() until run() has returned or raised
is_alive(t) == t.pc \notin {"exited", "raised"}

RECURSIVE SumLen(_, _)
SumLen(f, S) ==
    IF S = {} THEN 0
    ELSE LET x == CHOOSE y \in S : TRUE IN Len(f[x]) + SumLen(f, S \ {x})

\* the number of threads created so far
Spawned == SumLen(threads, Exps)

\* the bound on the threads created that applies to experiment e
StartCap(e) ==
    IF IsDAQScan(e) \/ IsDAQStats(e) \/ IsFSRSAcquire(e) THEN MaxStarts ELSE MaxScans

\* a thread object after run() has returned: the locals of run() are gone
Exited(t) ==
    [t EXCEPT !.pc = "exited", !.cset = 0, !.cpoint = 0, !.sawStopped = FALSE,
              !.old_wait_time = "unset",
              !.reference_data = [i \in 1..Len(t.points) |-> 0], !.divisor = 1,
              !.taken = [i \in 1..Len(t.points) |-> 0]]

\* no GridSearchThread created yet, both valves at rest.  History: updates
\* and finished count the onUpdate and onFinished calls posted, late is
\* whether a measurement was taken with the stop flag set
GridSearch_init ==
    [pc |-> "none", canQuit |-> FALSE, maxiter |-> 0, cset |-> 0, cpoint |-> 0,
     fog |-> 0, moving |-> <<FALSE, FALSE>>, updates |-> 0, finished |-> 0,
     late |-> FALSE]

\* NIStepper.__init__, the motor 'NI Axis 0': stepper.cstep, target (in
\* units of 1/PosDen step), moving, thrd (0 is None, k the k-th thread
\* created), the 'Movement' button.  threads are the NIstepperThread
\* objects created, calls the onMotorStopped calls posted with wx.CallAfter.
\* History: stopped, stop() has set a stop flag; reached, the step counter
\* has equalled the target since the last goto; again, a goto found the
\* thread of the goto before alive
NIStepper_init ==
    [cstep |-> 0, target |-> 0, moving |-> FALSE, thrd |-> 0, movement |-> "Start",
     threads |-> <<>>, calls |-> 0, stopped |-> FALSE, reached |-> TRUE,
     again |-> FALSE]

\* NIShutter.__init__: lastState, slope, and the values of the 'Channel',
\* 'Slope' and 'Control' properties.  History: call, the handler run last,
\* with the value and channel of its write and lastState before it
NIShutter_init ==
    [lastState |-> 0, slope |-> 255, channel |-> 0, slopeChoice |-> 1, control |-> 0,
     call |-> "__init__", value |-> 0, before |-> 0]

\* FSRSScan2 before the first onStart: no iterator yet, the gauge at 0.
\* taken counts the next() calls; history: shown, the values onUpdate has set
\* since the iterator was created
progress_init == [iterator |-> <<>>, taken |-> 0, value |-> 0, shown |-> <<>>]

\* np.linspace(0, 100, n).astype(int)
progress_cycle(n) == [i \in 1..n |-> IF n = 1 THEN 0 ELSE ((i - 1) * 100) \div (n - 1)]

\* the state after construction, but for DAQScan.points
InitProgram ==
    /\ scanThread = [e \in Exps |-> 0]
    /\ running = [e \in Exps |-> FALSE]
    /\ btnOldLabel = [e \in Exps |-> ""]
    /\ threads = [e \in Exps |-> <<>>]
    /\ queue = <<>>
    /\ enabled = [m \in Modules |-> [i \in PropIdx(m) |-> TRUE]]
    /\ handleLabel = [m \in Modules |-> [i \in PropIdx(m) |-> ModuleList[m].props[i].value]]
    /\ plotWnd = [e \in Exps |-> "None"]
    /\ data = [e \in Exps |-> <<>>]
    /\ bg = <<>>
    /\ typeChoice = [e \in Exps |-> IF IsXCScan(e) THEN 3 ELSE 0]
    /\ stage = InitialStage
    /\ refChoice = 0
    /\ saved = <<>>
    /\ timepoints = <<>>
    /\ progress = progress_init
    /\ acq = [mode |-> 0, N |-> 1, data |-> <<>>, intdata |-> <<>>]
    /\ calc = [fn |-> "none"]
    /\ modProp = ModProp_init
    /\ mod = FSRSModule_init
    /\ app = pyFSRSApp_init
    /\ grid = GridSearch_init
    /\ motor = NIStepper_init
    /\ nishutter = NIShutter_init
    /\ refWait = "0"
    /\ axisGoto = <<>>
    /\ axisMoving = FALSE
    /\ shutterWrite = <<>>
    /\ lastCall = NoCall

\* DAQScan.points is not followed
Init ==
    /\ InitProgram
    /\ scanPoints = [followed |-> FALSE, points |-> <<>>]

\* ------------------------------------------------------------------------
\* Experiment base class (controller context)
\* ------------------------------------------------------------------------

\* Experiment.start without the test of the handle
start_unguarded(e, argv) ==
    LET b == propindex_start[e] IN
    /\ Spawned < StartCap(e)
    /\ btnOldLabel' = IF b = 0 THEN btnOldLabel
                      ELSE [btnOldLabel EXCEPT ![e] = handleLabel[e][b]]
    /\ handleLabel' = IF b = 0 THEN handleLabel
                      ELSE [handleLabel EXCEPT ![e][b] = "STOP"]
    /\ threads' = [threads EXCEPT ![e] = Append(@, NewThread(argv))]
    /\ scanThread' = [scanThread EXCEPT ![e] = Len(threads[e]) + 1]

\* Experiment.start(thread, **argv)
start(e, argv) ==
    IF scanThread[e] # 0
    THEN UNCHANGED <<scanThread, threads, btnOldLabel, handleLabel>>
    ELSE LET b == propindex_start[e] IN
         /\ Spawned < StartCap(e)
         /\ btnOldLabel' = IF b = 0 THEN btnOldLabel
                           ELSE [btnOldLabel EXCEPT ![e] = handleLabel[e][b]]
         /\ handleLabel' = IF b = 0 THEN handleLabel
                           ELSE [handleLabel EXCEPT ![e][b] = "STOP"]
         /\ threads' = [threads EXCEPT ![e] = Append(@, NewThread(argv))]
         /\ scanThread' = [scanThread EXCEPT ![e] = Len(threads[e]) + 1]

\* Experiment.stop that does not signal the thread
stop_forgets(e) ==
    UNCHANGED <<threads, scanThread, btnOldLabel, handleLabel>>

\* Experiment.stop()
stop(e) ==
    /\ threads' = IF scanThread[e] # 0
                  THEN [threads EXCEPT ![e][scanThread[e]].canQuit = TRUE]
                  ELSE threads
    /\ UNCHANGED <<scanThread, btnOldLabel, handleLabel>>

\* the widgets after m.freezeUI(freeze) for every m in others, others being
\* the whole module list
freezeAll(freeze) == [m \in Modules |-> [i \in PropIdx(m) |-> ~freeze]]

\* Experiment.onStarted()
Experiment_onStarted(e) ==
    LET b == propindex_start[e]
        frozen == freezeAll(TRUE)
    IN  /\ enabled' = IF b = 0 THEN frozen ELSE [frozen EXCEPT ![e][b] = TRUE]
        /\ running' = [running EXCEPT ![e] = TRUE]

\* Experiment.onFinished that leaves the button label as it is
Experiment_onFinished_keepsLabel(e) ==
    LET k == scanThread[e]
        joins == k # 0 /\ is_alive(threads[e][k])
    IN  /\ joins => threads[e][k].pc = "end"
        /\ threads' = IF joins THEN [threads EXCEPT ![e][k] = Exited(@)] ELSE threads
        /\ scanThread' = IF joins THEN [scanThread EXCEPT ![e] = 0] ELSE scanThread
        /\ handleLabel' = handleLabel
        /\ enabled' = freezeAll(FALSE)
        /\ running' = [running EXCEPT ![e] = FALSE]

\* Experiment.onFinished(): the join blocks the main loop until the thread
\* has left run()
Experiment_onFinished(e) ==
    LET b == propindex_start[e]
        k == scanThread[e]
        joins == k # 0 /\ is_alive(threads[e][k])
    IN  /\ joins => threads[e][k].pc = "end"
        /\ threads' = IF joins THEN [threads EXCEPT ![e][k] = Exited(@)] ELSE threads
        /\ scanThread' = IF joins THEN [scanThread EXCEPT ![e] = 0] ELSE scanThread
        /\ handleLabel' = IF b = 0 THEN handleLabel
                          ELSE [handleLabel EXCEPT ![e][b] = btnOldLabel[e]]
        /\ enabled' = freezeAll(FALSE)
        /\ running' = [running EXCEPT ![e] = FALSE]

\* ------------------------------------------------------------------------
\* The experiment modules (controller context)
\* ------------------------------------------------------------------------

\* the choices of the 'Type' widget: FSRS, TA, T/T0 and, for XCScan, Kerr
TypeChoices(e) ==
    IF IsXCScan(e) THEN 0..3 ELSE IF IsFSRSScan2(e) THEN 0..2 ELSE {0}

\* the thread arguments onStart can read from the properties of e
Configs(e) ==
    IF IsDAQStats(e)
    THEN {Argv(<<>>, n, 1, 0) : n \in 1..MaxPoints}
    ELSE IF IsFSRSScan2(e)
    THEN LET n == Len(prepareScanPoints([stage EXCEPT !.random = 0], <<>>))
             s_ref == IF refChoice >= 1 THEN inputs[refChoice] ELSE 0
         IN  {[Argv(prepareScanPoints(stage, perm), 0, s, typeChoice[e])
                  EXCEPT !.reference = s_ref] :
                 perm \in Shuffles(n), s \in 1..MaxSets}
    ELSE {Argv(p, 0, 1, typeChoice[e]) : p \in ScanPointLists}

\* self.points of DAQScan after experiment e has assigned points to its own
DAQScan_points(e, points) ==
    IF IsDAQScan(e) /\ scanPoints.followed
    THEN [scanPoints EXCEPT !.points = points]
    ELSE scanPoints

\* DAQScan.onStart, DAQStats.onStart, FSRSScan2.onStart, XCScan.onStart,
\* entered with self.data = d; argv are the thread arguments read from the
\* properties.  Destroy() on the window object of a frame the user has closed
\* raises, which ends the handler (DAQScan and DAQStats have reset their data
\* by then).  The plot contents, the other gauges and the files written are
\* not part of this state, except the timepoints file and the gauge of
\* FSRSScan2, whose state on entry is g.
onStart(e, d, g, argv) ==
    IF running[e]
    THEN /\ stop(e)
         /\ data' = [data EXCEPT ![e] = d]
         /\ progress' = g
         /\ UNCHANGED <<plotWnd, bg, running, timepoints, scanPoints>>
    ELSE IF plotWnd[e] = "Dead"
    THEN /\ data' = [data EXCEPT ![e] = IF IsDAQScan(e) \/ IsDAQStats(e) THEN <<>> ELSE d]
         /\ scanPoints' = DAQScan_points(e, <<>>)
         /\ progress' = g
         /\ UNCHANGED <<plotWnd, bg, running, timepoints>>
         /\ UNCHANGED <<scanThread, threads, btnOldLabel, handleLabel>>
    ELSE /\ data' = [data EXCEPT ![e] = IF IsFSRSScan2(e) THEN d ELSE <<>>]
         /\ plotWnd' = [plotWnd EXCEPT ![e] = "Frame"]
         /\ bg' = IF IsXCScan(e) THEN <<>> ELSE bg
         /\ running' = IF IsXCScan(e) THEN [running EXCEPT ![e] = TRUE] ELSE running
         /\ scanPoints' = DAQScan_points(e, argv.points)
         /\ progress' = IF IsFSRSScan2(e)
                        THEN [iterator |-> progress_cycle(Len(argv.points) * argv.sets),
                              taken |-> 0, value |-> 0, shown |-> <<>>]
                        ELSE g
         /\ timepoints' = IF IsFSRSScan2(e) THEN np_sort(argv.points) ELSE timepoints
         /\ start(e, argv)

\* DAQScan.onUpdate / DAQStats.onUpdate(val)
DAQ_onUpdate(e, val) ==
    LET d == Append(data[e], val) IN
    IF plotWnd[e] = "Frame"
    THEN /\ data' = [data EXCEPT ![e] = d]
         /\ UNCHANGED <<plotWnd, bg, running, scanThread, threads, btnOldLabel, handleLabel,
                        timepoints, scanPoints, progress>>
    ELSE \* user closed the plotWindow -> stop thread: self.onStart()
         \E argv \in Configs(e) : onStart(e, d, progress, argv)

\* ModProp.getValue() of the i-th property of FSRSScan2, for the choices
\* this state holds
getValue(e, i) ==
    LET label == ModuleList[e].props[i].label IN
    IF label = <<"M", "o", "d", "e">> THEN stage.mode
    ELSE IF label = <<"T", "y", "p", "e">> THEN typeChoice[e]
    ELSE refChoice

\* the file FSRSScan2.onUpdate writes when the value it branches on is the
\* property with index i.  History: scan and type, the thread whose
\* acquisition this is and its measurement type; key, what was acquired.
SavedFile(e, i, val) ==
    LET mode == getValue(e, i) IN
    [name |-> formatFSRSFilename(mode, Basename, val.step, val.set, val.grexc),
     A |-> transform(mode), ftype |-> mode,
     scan |-> val.scan, type |-> threads[e][val.scan].type,
     key |-> <<val.grexc, val.step, val.set>>]

\* next(self.progress_iterator) and setValue of the 'Progress' gauge
progress_next(g) ==
    LET v == g.iterator[(g.taken % Len(g.iterator)) + 1]
    IN  [g EXCEPT !.taken = @ + 1, !.value = v, !.shown = Append(@, v)]

\* FSRSScan2.onUpdate(val, grexc, step, set); next() of an iterator over
\* nothing raises StopIteration, which ends the handler
FSRSScan2_onUpdate(e, val) ==
    /\ saved' = Append(saved, SavedFile(e, propindex_mode[e], val))
    /\ IF progress.iterator = <<>>
       THEN UNCHANGED <<data, plotWnd, bg, running, scanThread, threads, btnOldLabel,
                        handleLabel, timepoints, scanPoints, progress>>
       ELSE IF plotWnd[e] = "Frame"
       THEN /\ progress' = progress_next(progress)
            /\ UNCHANGED <<data, plotWnd, bg, running, scanThread, threads, btnOldLabel,
                           handleLabel, timepoints, scanPoints>>
       ELSE \E argv \in Configs(e) : onStart(e, data[e], progress_next(progress), argv)

\* XCScan.onUpdate(val): the first frame of a Kerr scan becomes the background
XCScan_onUpdate(e, val) ==
    IF typeChoice[e] # 3 \/ bg # <<>>
    THEN LET d == Append(data[e], val) IN
         IF plotWnd[e] = "Frame"
         THEN /\ data' = [data EXCEPT ![e] = d]
              /\ UNCHANGED <<plotWnd, bg, running, scanThread, threads, btnOldLabel,
                             handleLabel, timepoints, scanPoints, progress>>
         ELSE \E argv \in Configs(e) : onStart(e, d, progress, argv)
    ELSE /\ bg' = <<val>>
         /\ UNCHANGED <<data, plotWnd, running, scanThread, threads, btnOldLabel,
                        handleLabel, timepoints, scanPoints, progress>>

onUpdate(e, val) ==
    IF IsFSRSScan2(e) THEN FSRSScan2_onUpdate(e, val)
    ELSE IF IsXCScan(e) THEN XCScan_onUpdate(e, val) /\ UNCHANGED saved
    ELSE DAQ_onUpdate(e, val) /\ UNCHANGED saved

\* DAQScan.onFinished, DAQStats.onFinished, FSRSScan2.onFinished,
\* XCScan.onFinished: the base class handler, then the plot window is detached
onFinished(e) ==
    /\ Experiment_onFinished(e)
    /\ plotWnd' = [plotWnd EXCEPT ![e] = "None"]

\* ------------------------------------------------------------------------
\* The controller: the wx main loop runs one handler at a time
\* ------------------------------------------------------------------------

UnchangedDevices == UNCHANGED <<axisGoto, axisMoving, shutterWrite, refWait>>

\* the properties and files no handler of the base class touches
UnchangedSettings == UNCHANGED <<stage, refChoice, calc, modProp, mod, app, grid, motor, nishutter>>

\* the user presses the Start/Stop button of experiment e
PressStart(e) ==
    /\ propindex_start[e] # 0
    /\ enabled[e][propindex_start[e]]
    /\ \E argv \in Configs(e) : onStart(e, data[e], progress, argv)
    /\ lastCall' = Call("onStart", e,
                        IF ~running[e] /\ plotWnd[e] # "Dead" /\ scanThread[e] # 0
                        THEN 1 ELSE 0)
    /\ UNCHANGED <<queue, enabled, typeChoice, saved, acq>>
    /\ UnchangedSettings
    /\ UnchangedDevices

\* the user selects another entry of the 'Type' choice of experiment e
SelectType(e) ==
    /\ propindex_type[e] # 0
    /\ enabled[e][propindex_type[e]]
    /\ \E t \in TypeChoices(e) \ {typeChoice[e]} :
          typeChoice' = [typeChoice EXCEPT ![e] = t]
    /\ UNCHANGED <<scanThread, running, btnOldLabel, threads, queue, enabled,
                   handleLabel, plotWnd, data, bg, saved, timepoints, scanPoints, progress, acq, lastCall>>
    /\ UnchangedSettings
    /\ UnchangedDevices

\* the user changes the stage properties of FSRSScan2 (onAxisRangeChange has
\* normalised them); the model lets the user do so once
SelectStage(e) ==
    /\ IsFSRSScan2(e)
    /\ enabled[e][propindex_mode[e]]
    /\ stage = InitialStage
    /\ \E st \in FSRSStageSettings \ {stage} : stage' = st
    /\ UNCHANGED <<scanThread, running, btnOldLabel, threads, queue, enabled,
                   handleLabel, plotWnd, data, bg, typeChoice, refChoice, saved,
                   timepoints, scanPoints, progress, acq, calc, modProp, mod, app, grid, motor, nishutter, lastCall>>
    /\ UnchangedDevices

\* the user selects another entry of 'Take Ref.' of FSRSScan2: 0 is "No",
\* r >= 1 is inputs[r - 1]
SelectReference(e) ==
    /\ IsFSRSScan2(e)
    /\ enabled[e][propindex_ref[e]]
    /\ \E r \in (0..Len(inputs)) \ {refChoice} : refChoice' = r
    /\ UNCHANGED <<scanThread, running, btnOldLabel, threads, queue, enabled,
                   handleLabel, plotWnd, data, bg, typeChoice, stage, saved,
                   timepoints, scanPoints, progress, acq, calc, modProp, mod, app, grid, motor, nishutter, lastCall>>
    /\ UnchangedDevices

\* the values the user enters for 'Wait Time (s)' of the Dummy Sensor
WaitTimes == {"0", "2"}

\* the user edits 'Wait Time (s)' of the Dummy Sensor
SetWait ==
    /\ enabled[DummySensor][propindex_wait[DummySensor]]
    /\ \E w \in WaitTimes \ {refWait} : refWait' = w
    /\ UNCHANGED <<scanThread, running, btnOldLabel, threads, queue, enabled,
                   handleLabel, plotWnd, data, bg, typeChoice, stage, refChoice,
                   saved, timepoints, scanPoints, progress, acq, calc, modProp, mod, app, grid, motor, nishutter, lastCall>>
    /\ UNCHANGED <<axisGoto, axisMoving, shutterWrite>>

\* the user closes the plot window of experiment e
ClosePlot(e) ==
    /\ plotWnd[e] = "Frame"
    /\ plotWnd' = [plotWnd EXCEPT ![e] = "Dead"]
    /\ UNCHANGED <<scanThread, running, btnOldLabel, threads, queue, enabled,
                   handleLabel, data, bg, typeChoice, saved, timepoints, scanPoints, progress, acq, lastCall>>
    /\ UnchangedSettings
    /\ UnchangedDevices

\* the main loop processes the oldest call posted with wx.CallAfter
DispatchStarted ==
    /\ queue # <<>>
    /\ Head(queue).fn = "onStarted"
    /\ Experiment_onStarted(Head(queue).exp)
    /\ queue' = Tail(queue)
    /\ lastCall' = Call("onStarted", Head(queue).exp, 0)
    /\ UNCHANGED <<scanThread, btnOldLabel, threads, handleLabel, plotWnd, data,
                   bg, typeChoice, saved, timepoints, scanPoints, progress, acq>>
    /\ UnchangedSettings
    /\ UnchangedDevices

DispatchUpdate ==
    /\ queue # <<>>
    /\ Head(queue).fn = "onUpdate"
    /\ onUpdate(Head(queue).exp, Head(queue).val)
    /\ queue' = Tail(queue)
    /\ lastCall' = Call("onUpdate", Head(queue).exp,
                        IF plotWnd[Head(queue).exp] # "Frame" THEN 1 ELSE 0)
    /\ UNCHANGED <<enabled, typeChoice, acq>>
    /\ UnchangedSettings
    /\ UnchangedDevices

DispatchFinished ==
    /\ queue # <<>>
    /\ Head(queue).fn = "onFinished"
    /\ onFinished(Head(queue).exp)
    /\ queue' = Tail(queue)
    /\ lastCall' = Call("onFinished", Head(queue).exp, 0)
    /\ UNCHANGED <<btnOldLabel, data, bg, typeChoice, saved, timepoints, scanPoints, progress, acq>>
    /\ UnchangedSettings
    /\ UnchangedDevices

\* ------------------------------------------------------------------------
\* The scan threads
\* ------------------------------------------------------------------------

ThreadIds(e) == 1..Len(threads[e])

\* what a thread step leaves alone: the state only the controller writes
UnchangedByThread ==
    UNCHANGED <<scanThread, running, btnOldLabel, enabled, handleLabel,
                plotWnd, data, bg, typeChoice, stage, refChoice, saved,
                timepoints, scanPoints, progress, acq, calc, modProp, mod, app, grid, motor, nishutter, lastCall>>

\* the value daq.read() / ccd.readNframes() returns for the cpoint-th point
read(cpoint) == cpoint + 1

\* self.axis.goto(x): the stage sets off (Axis device contract)
axis_goto(x) ==
    /\ axisGoto' = <<x>>
    /\ axisMoving' = TRUE

\* threads after thread k of e has moved to statement pc
setPc(e, k, pc) == threads' = [threads EXCEPT ![e][k].pc = pc]

\* ---- DAQScanThread.run ----

\* wx.CallAfter(self.parent.onStarted); time.sleep(0.1); cpoint = 0
DAQScanThread_started(e, k) ==
    /\ IsDAQScan(e)
    /\ threads[e][k].pc = "run"
    /\ queue' = Append(queue, Call("onStarted", e, 0))
    /\ setPc(e, k, "loop")
    /\ UnchangedDevices
    /\ UnchangedByThread

\* while(self.canQuit.isSet() == 0 and cpoint < len(self.points))
DAQScanThread_loop(e, k) ==
    LET t == threads[e][k] IN
    /\ IsDAQScan(e)
    /\ t.pc = "loop"
    /\ setPc(e, k, IF ~t.canQuit /\ t.cpoint < Len(t.points) THEN "goto" ELSE "return")
    /\ UNCHANGED queue
    /\ UnchangedDevices
    /\ UnchangedByThread

\* self.axis.goto(self.points[cpoint])
DAQScanThread_goto(e, k) ==
    LET t == threads[e][k] IN
    /\ IsDAQScan(e)
    /\ t.pc = "goto"
    /\ axis_goto(t.points[t.cpoint + 1])
    /\ threads' = [threads EXCEPT ![e][k].pc = "wait", ![e][k].sawStopped = FALSE]
    /\ UNCHANGED <<queue, shutterWrite, refWait>>
    /\ UnchangedByThread

\* while self.axis.is_moving() and self.canQuit.isSet() == 0: time.sleep(0.01)
DAQScanThread_wait(e, k) ==
    LET t == threads[e][k] IN
    /\ IsDAQScan(e)
    /\ t.pc = "wait"
    /\ ~(axisMoving /\ ~t.canQuit)
    /\ threads' = [threads EXCEPT ![e][k].pc = "read", ![e][k].sawStopped = ~axisMoving]
    /\ UNCHANGED queue
    /\ UnchangedDevices
    /\ UnchangedByThread

\* val = self.daq.read(); wx.CallAfter(self.parent.onUpdate, val); cpoint += 1
DAQScanThread_read(e, k) ==
    LET t == threads[e][k] IN
    /\ IsDAQScan(e)
    /\ t.pc = "read"
    /\ queue' = Append(queue, Call("onUpdate", e, read(t.cpoint)))
    /\ threads' = [threads EXCEPT ![e][k].pc = "loop", ![e][k].cpoint = @ + 1,
                                  ![e][k].blind = @ \/ ~t.sawStopped]
    /\ UnchangedDevices
    /\ UnchangedByThread

\* self.axis.goto(self.points[0]), an IndexError when points is empty
DAQScanThread_return(e, k) ==
    LET t == threads[e][k] IN
    /\ IsDAQScan(e)
    /\ t.pc = "return"
    /\ IF t.points = <<>>
       THEN setPc(e, k, "raised") /\ UNCHANGED <<axisGoto, axisMoving>>
       ELSE setPc(e, k, "finish") /\ axis_goto(t.points[1])
    /\ UNCHANGED <<queue, shutterWrite, refWait>>
    /\ UnchangedByThread

\* wx.CallAfter(self.parent.onFinished)
DAQScanThread_finish(e, k) ==
    /\ IsDAQScan(e)
    /\ threads[e][k].pc = "finish"
    /\ queue' = Append(queue, Call("onFinished", e, 0))
    /\ setPc(e, k, "end")
    /\ UnchangedDevices
    /\ UnchangedByThread

\* ---- DAQStatThread.run ----

\* wx.CallAfter(self.parent.onStarted); time.sleep(0.1); cpoint = 0
DAQStatThread_started(e, k) ==
    /\ IsDAQStats(e)
    /\ threads[e][k].pc = "run"
    /\ queue' = Append(queue, Call("onStarted", e, 0))
    /\ setPc(e, k, "loop")
    /\ UnchangedDevices
    /\ UnchangedByThread

\* while(self.canQuit.isSet() == 0 and cpoint < self.points)
DAQStatThread_loop(e, k) ==
    LET t == threads[e][k] IN
    /\ IsDAQStats(e)
    /\ t.pc = "loop"
    /\ setPc(e, k, IF ~t.canQuit /\ t.cpoint < t.n THEN "read" ELSE "finish")
    /\ UNCHANGED queue
    /\ UnchangedDevices
    /\ UnchangedByThread

\* val = self.daq.read(); wx.CallAfter(self.parent.onUpdate, val); cpoint += 1
DAQStatThread_read(e, k) ==
    LET t == threads[e][k] IN
    /\ IsDAQStats(e)
    /\ t.pc = "read"
    /\ queue' = Append(queue, Call("onUpdate", e, read(t.cpoint)))
    /\ threads' = [threads EXCEPT ![e][k].pc = "loop", ![e][k].cpoint = @ + 1]
    /\ UnchangedDevices
    /\ UnchangedByThread

\* wx.CallAfter(self.parent.onFinished)
DAQStatThread_finish(e, k) ==
    /\ IsDAQStats(e)
    /\ threads[e][k].pc = "finish"
    /\ queue' = Append(queue, Call("onFinished", e, 0))
    /\ setPc(e, k, "end")
    /\ UnchangedDevices
    /\ UnchangedByThread

\* ---- every thread ----

\* run() returns
Thread_exit(e, k) ==
    /\ threads[e][k].pc = "end"
    /\ threads' = [threads EXCEPT ![e][k] = Exited(@)]
    /\ UNCHANGED queue
    /\ UnchangedDevices
    /\ UnchangedByThread

\* the stage reaches its target
AxisSettle ==
    /\ axisMoving
    /\ axisMoving' = FALSE
    /\ UNCHANGED <<queue, threads, axisGoto, shutterWrite, refWait>>
    /\ UnchangedByThread

\* ---- FSRSScan2.ScanThread.run ----

\* self.reference.read() at scan point cpoint: a positive reading that
\* differs from point to point
reference_read(cpoint) == cpoint + 1

\* reference_data[cpoint] = reference_data[cpoint] + self.reference.read()
accumulate(t) ==
    IF t.reference # 0
    THEN [t EXCEPT !.reference_data[t.cpoint + 1] = @ + reference_read(t.cpoint),
                   !.taken[t.cpoint + 1] = @ + 1]
    ELSE t

\* if cset > 0: reference_data = reference_data / float(cset)
divide(t) ==
    IF t.reference # 0 /\ t.cset > 0 THEN [t EXCEPT !.divisor = t.cset] ELSE t

\* self.reference is not None and self.reference.hasProperty("wait")
has_wait(t) == t.reference # 0 /\ hasProperty_wait(t.reference)

\* wx.CallAfter(self.parent.onStarted); cset = 0
FSRSThread_started(e, k) ==
    /\ IsFSRSScan2(e)
    /\ threads[e][k].pc = "run"
    /\ queue' = Append(queue, Call("onStarted", e, 0))
    /\ setPc(e, k, "prepare")
    /\ UnchangedDevices
    /\ UnchangedByThread

\* maxinterval = np.amax(self.points) - np.amin(self.points), a ValueError
\* when points is empty; the wait time of the reference is kept and set to
\* "0"; time.sleep(0.5); if self.type > 0: shutter.write(1)
FSRSThread_prepare(e, k) ==
    LET t == threads[e][k] IN
    /\ IsFSRSScan2(e)
    /\ t.pc = "prepare"
    /\ IF t.points = <<>>
       THEN setPc(e, k, "raised") /\ UNCHANGED <<shutterWrite, refWait>>
       ELSE /\ threads' = [threads EXCEPT ![e][k].pc = "loop",
                               ![e][k].old_wait_time = IF has_wait(t) THEN refWait ELSE @]
            /\ refWait' = IF has_wait(t) THEN "0" ELSE refWait
            /\ shutterWrite' = IF t.type > 0 THEN <<1>> ELSE shutterWrite
    /\ UNCHANGED <<queue, axisGoto, axisMoving>>
    /\ UnchangedByThread

\* while(self.canQuit.isSet() == 0 and cset < self.sets): cpoint = 0
FSRSThread_loop(e, k) ==
    LET t == threads[e][k] IN
    /\ IsFSRSScan2(e)
    /\ t.pc = "loop"
    /\ IF ~t.canQuit /\ t.cset < t.sets
       THEN threads' = [threads EXCEPT ![e][k].pc = "goto_first", ![e][k].cpoint = 0]
       ELSE setPc(e, k, "return")
    /\ UNCHANGED queue
    /\ UnchangedDevices
    /\ UnchangedByThread

\* self.axis.goto(self.points[cpoint]); time.sleep(estimate)
FSRSThread_goto_first(e, k) ==
    LET t == threads[e][k] IN
    /\ IsFSRSScan2(e)
    /\ t.pc = "goto_first"
    /\ axis_goto(t.points[t.cpoint + 1])
    /\ threads' = [threads EXCEPT ![e][k].pc = IF t.type = 0 THEN "gr_close" ELSE "inner",
                                  ![e][k].sawStopped = FALSE]
    /\ UNCHANGED <<queue, shutterWrite, refWait>>
    /\ UnchangedByThread

\* if self.type == 0: self.shutter.write(0)
FSRSThread_gr_close(e, k) ==
    /\ IsFSRSScan2(e)
    /\ threads[e][k].pc = "gr_close"
    /\ shutterWrite' = <<0>>
    /\ setPc(e, k, "gr_read")
    /\ UNCHANGED <<queue, axisGoto, axisMoving, refWait>>
    /\ UnchangedByThread

\* the ground state acquisition posted without the set index
FSRSThread_gr_read_unset(e, k) ==
    LET t == threads[e][k] IN
    /\ IsFSRSScan2(e)
    /\ t.pc = "gr_read"
    /\ queue' = IF ~t.canQuit
                THEN Append(queue, Call("onUpdate", e,
                                    [grexc |-> 0, step |-> 0, set |-> 0, scan |-> k]))
                ELSE queue
    /\ setPc(e, k, "gr_open")
    /\ UnchangedDevices
    /\ UnchangedByThread

\* if self.canQuit.isSet() == 0: val = readNframes();
\* wx.CallAfter(self.parent.onUpdate, val, 0, 0, cset)
FSRSThread_gr_read(e, k) ==
    LET t == threads[e][k] IN
    /\ IsFSRSScan2(e)
    /\ t.pc = "gr_read"
    /\ queue' = IF ~t.canQuit
                THEN Append(queue, Call("onUpdate", e,
                                    [grexc |-> 0, step |-> 0, set |-> t.cset, scan |-> k]))
                ELSE queue
    /\ setPc(e, k, "gr_open")
    /\ UnchangedDevices
    /\ UnchangedByThread

\* self.shutter.write(1)
FSRSThread_gr_open(e, k) ==
    /\ IsFSRSScan2(e)
    /\ threads[e][k].pc = "gr_open"
    /\ shutterWrite' = <<1>>
    /\ setPc(e, k, "inner")
    /\ UNCHANGED <<queue, axisGoto, axisMoving, refWait>>
    /\ UnchangedByThread

\* while(cpoint < len(self.points) and self.canQuit.isSet() == 0); when the
\* loop is left: cset += 1
FSRSThread_inner(e, k) ==
    LET t == threads[e][k] IN
    /\ IsFSRSScan2(e)
    /\ t.pc = "inner"
    /\ IF t.cpoint < Len(t.points) /\ ~t.canQuit
       THEN setPc(e, k, "read")
       ELSE threads' = [threads EXCEPT ![e][k].pc = "loop", ![e][k].cset = @ + 1]
    /\ UNCHANGED queue
    /\ UnchangedDevices
    /\ UnchangedByThread

\* if self.canQuit.isSet() == 0: val = readNframes();
\* wx.CallAfter(self.parent.onUpdate, val, 1, self.points[cpoint], cset);
\* time.sleep(0.2); cpoint += 1
FSRSThread_read(e, k) ==
    LET t == threads[e][k] IN
    /\ IsFSRSScan2(e)
    /\ t.pc = "read"
    /\ IF ~t.canQuit
       THEN /\ queue' = Append(queue, Call("onUpdate", e,
                 [grexc |-> 1, step |-> t.points[t.cpoint + 1], set |-> t.cset, scan |-> k]))
            /\ threads' = [threads EXCEPT ![e][k] =
                    [accumulate(t) EXCEPT !.pc = "goto_next", !.cpoint = @ + 1,
                                          !.blind = @ \/ ~t.sawStopped]]
       ELSE /\ UNCHANGED queue
            /\ setPc(e, k, "goto_next")
    /\ UnchangedDevices
    /\ UnchangedByThread

\* self.axis.goto(self.points[cpoint % len(self.points)]); time.sleep(estimate)
FSRSThread_goto_next(e, k) ==
    LET t == threads[e][k] IN
    /\ IsFSRSScan2(e)
    /\ t.pc = "goto_next"
    /\ axis_goto(t.points[(t.cpoint % Len(t.points)) + 1])
    /\ threads' = [threads EXCEPT ![e][k].pc = "inner", ![e][k].sawStopped = FALSE]
    /\ UNCHANGED <<queue, shutterWrite, refWait>>
    /\ UnchangedByThread

\* self.axis.goto(self.points[0]); time.sleep(estimate)
FSRSThread_return(e, k) ==
    LET t == threads[e][k] IN
    /\ IsFSRSScan2(e)
    /\ t.pc = "return"
    /\ axis_goto(t.points[1])
    /\ threads' = [threads EXCEPT ![e][k].pc = "close", ![e][k].sawStopped = FALSE]
    /\ UNCHANGED <<queue, shutterWrite, refWait>>
    /\ UnchangedByThread

\* self.shutter.write(0)
FSRSThread_close(e, k) ==
    /\ IsFSRSScan2(e)
    /\ threads[e][k].pc = "close"
    /\ shutterWrite' = <<0>>
    /\ setPc(e, k, "finish")
    /\ UNCHANGED <<queue, axisGoto, axisMoving, refWait>>
    /\ UnchangedByThread

\* if self.reference is not None: the sums are divided by cset, the wait
\* time is restored; wx.CallAfter(self.parent.onFinished, self.points,
\* reference_data), else wx.CallAfter(self.parent.onFinished)
FSRSThread_finish(e, k) ==
    LET t == threads[e][k] IN
    /\ IsFSRSScan2(e)
    /\ t.pc = "finish"
    /\ refWait' = IF has_wait(t) THEN t.old_wait_time ELSE refWait
    /\ queue' = Append(queue, Call("onFinished", e, 0))
    /\ threads' = [threads EXCEPT ![e][k] = [divide(t) EXCEPT !.pc = "end"]]
    /\ UNCHANGED <<axisGoto, axisMoving, shutterWrite>>
    /\ UnchangedByThread

\* a call of a device method (axis.goto, shutter.write, ccd.readNframes,
\* reference.read) raises: run() ends with the exception
DeviceCalls ==
    {"goto_first", "gr_close", "gr_read", "gr_open", "read", "goto_next", "return", "close"}

FSRSThread_device_error(e, k) ==
    /\ IsFSRSScan2(e)
    /\ threads[e][k].pc \in DeviceCalls
    /\ setPc(e, k, "raised")
    /\ UNCHANGED queue
    /\ UnchangedDevices
    /\ UnchangedByThread

\* ---- XCScan.ScanThread.run ----

\* XCScan.ScanThread.run whose last axis command is goto(points[0])
XCThread_return_first(e, k) ==
    LET t == threads[e][k] IN
    /\ IsXCScan(e)
    /\ t.pc = "return"
    /\ IF t.points = <<>>
       THEN setPc(e, k, "raised") /\ UNCHANGED <<axisGoto, axisMoving>>
       ELSE /\ axis_goto(t.points[1])
            /\ threads' = [threads EXCEPT ![e][k].pc = "close", ![e][k].sawStopped = FALSE]
    /\ UNCHANGED <<queue, shutterWrite, refWait>>
    /\ UnchangedByThread

\* wx.CallAfter(self.parent.onStarted); cset = 0; time.sleep(0.1)
XCThread_started(e, k) ==
    LET t == threads[e][k] IN
    /\ IsXCScan(e)
    /\ t.pc = "run"
    /\ queue' = Append(queue, Call("onStarted", e, 0))
    /\ setPc(e, k, IF t.type = 3 THEN "kerr" ELSE "open")
    /\ UnchangedDevices
    /\ UnchangedByThread

\* if self.type == 3: self.shutter.write(0)
XCThread_kerr(e, k) ==
    /\ IsXCScan(e)
    /\ threads[e][k].pc = "kerr"
    /\ shutterWrite' = <<0>>
    /\ setPc(e, k, "bg_read")
    /\ UNCHANGED <<queue, axisGoto, axisMoving, refWait>>
    /\ UnchangedByThread

\* if self.canQuit.isSet() == 0: val = readNframes()
\* wx.CallAfter(self.parent.onUpdate, val): a NameError when val was not
\* assigned
XCThread_bg_read(e, k) ==
    LET t == threads[e][k] IN
    /\ IsXCScan(e)
    /\ t.pc = "bg_read"
    /\ IF ~t.canQuit
       THEN /\ queue' = Append(queue, Call("onUpdate", e, 0))
            /\ setPc(e, k, "open")
       ELSE /\ UNCHANGED queue
            /\ setPc(e, k, "raised")
    /\ UnchangedDevices
    /\ UnchangedByThread

\* self.shutter.write(1)
XCThread_open(e, k) ==
    /\ IsXCScan(e)
    /\ threads[e][k].pc = "open"
    /\ shutterWrite' = <<1>>
    /\ setPc(e, k, "loop")
    /\ UNCHANGED <<queue, axisGoto, axisMoving, refWait>>
    /\ UnchangedByThread

\* while(self.canQuit.isSet() == 0 and cset < self.sets): cpoint = 0
XCThread_loop(e, k) ==
    LET t == threads[e][k] IN
    /\ IsXCScan(e)
    /\ t.pc = "loop"
    /\ IF ~t.canQuit /\ t.cset < t.sets
       THEN threads' = [threads EXCEPT ![e][k].pc = "goto_first", ![e][k].cpoint = 0]
       ELSE setPc(e, k, "return")
    /\ UNCHANGED queue
    /\ UnchangedDevices
    /\ UnchangedByThread

\* self.axis.goto(self.points[cpoint]), an IndexError when points is empty
XCThread_goto_first(e, k) ==
    LET t == threads[e][k] IN
    /\ IsXCScan(e)
    /\ t.pc = "goto_first"
    /\ IF t.points = <<>>
       THEN setPc(e, k, "raised") /\ UNCHANGED <<axisGoto, axisMoving>>
       ELSE /\ axis_goto(t.points[t.cpoint + 1])
            /\ threads' = [threads EXCEPT ![e][k].pc = "inner", ![e][k].sawStopped = FALSE]
    /\ UNCHANGED <<queue, shutterWrite, refWait>>
    /\ UnchangedByThread

\* while(cpoint < len(self.points) and self.canQuit.isSet() == 0); when the
\* loop is left: cset += 1
XCThread_inner(e, k) ==
    LET t == threads[e][k] IN
    /\ IsXCScan(e)
    /\ t.pc = "inner"
    /\ IF t.cpoint < Len(t.points) /\ ~t.canQuit
       THEN setPc(e, k, "wait")
       ELSE threads' = [threads EXCEPT ![e][k].pc = "loop", ![e][k].cset = @ + 1]
    /\ UNCHANGED queue
    /\ UnchangedDevices
    /\ UnchangedByThread

\* while self.axis.is_moving() and self.canQuit.isSet() == 0: time.sleep(0.1)
XCThread_wait(e, k) ==
    LET t == threads[e][k] IN
    /\ IsXCScan(e)
    /\ t.pc = "wait"
    /\ ~(axisMoving /\ ~t.canQuit)
    /\ threads' = [threads EXCEPT ![e][k].pc = "read", ![e][k].sawStopped = ~axisMoving]
    /\ UNCHANGED queue
    /\ UnchangedDevices
    /\ UnchangedByThread

\* if self.canQuit.isSet() == 0: val = readNframes();
\* wx.CallAfter(self.parent.onUpdate, val); cpoint += 1
XCThread_read(e, k) ==
    LET t == threads[e][k] IN
    /\ IsXCScan(e)
    /\ t.pc = "read"
    /\ IF ~t.canQuit
       THEN /\ queue' = Append(queue, Call("onUpdate", e, read(t.cpoint)))
            /\ threads' = [threads EXCEPT ![e][k].pc = "goto_next", ![e][k].cpoint = @ + 1,
                                          ![e][k].blind = @ \/ ~t.sawStopped]
       ELSE /\ UNCHANGED queue
            /\ setPc(e, k, "goto_next")
    /\ UnchangedDevices
    /\ UnchangedByThread

\* self.axis.goto(self.points[cpoint % len(self.points)])
XCThread_goto_next(e, k) ==
    LET t == threads[e][k] IN
    /\ IsXCScan(e)
    /\ t.pc = "goto_next"
    /\ axis_goto(t.points[(t.cpoint % Len(t.points)) + 1])
    /\ threads' = [threads EXCEPT ![e][k].pc = "inner", ![e][k].sawStopped = FALSE]
    /\ UNCHANGED <<queue, shutterWrite, refWait>>
    /\ UnchangedByThread

\* return axis to zero: self.axis.goto(0.0)
XCThread_return(e, k) ==
    LET t == threads[e][k] IN
    /\ IsXCScan(e)
    /\ t.pc = "return"
    /\ axis_goto(0)
    /\ threads' = [threads EXCEPT ![e][k].pc = "close", ![e][k].sawStopped = FALSE]
    /\ UNCHANGED <<queue, shutterWrite, refWait>>
    /\ UnchangedByThread

\* self.shutter.write(0)
XCThread_close(e, k) ==
    /\ IsXCScan(e)
    /\ threads[e][k].pc = "close"
    /\ shutterWrite' = <<0>>
    /\ setPc(e, k, "finish")
    /\ UNCHANGED <<queue, axisGoto, axisMoving, refWait>>
    /\ UnchangedByThread

\* wx.CallAfter(self.parent.onFinished)
XCThread_finish(e, k) ==
    /\ IsXCScan(e)
    /\ threads[e][k].pc = "finish"
    /\ queue' = Append(queue, Call("onFinished", e, 0))
    /\ setPc(e, k, "end")
    /\ UnchangedDevices
    /\ UnchangedByThread

\* ------------------------------------------------------------------------
\* Specifications
\* ------------------------------------------------------------------------

DAQExps == {e \in Exps : IsDAQScan(e) \/ IsDAQStats(e)}

FSRSExps == {e \in Exps : IsFSRSScan2(e)}

XCExps == {e \in Exps : IsXCScan(e)}

\* the user works with DAQ Scan and DAQ Stats
Next ==
    \/ \E e \in DAQExps : PressStart(e)
    \/ \E e \in DAQExps : ClosePlot(e)
    \/ DispatchStarted
    \/ DispatchUpdate
    \/ DispatchFinished
    \/ \E e \in DAQExps : \E k \in ThreadIds(e) : DAQScanThread_started(e, k)
    \/ \E e \in DAQExps : \E k \in ThreadIds(e) : DAQScanThread_loop(e, k)
    \/ \E e \in DAQExps : \E k \in ThreadIds(e) : DAQScanThread_goto(e, k)
    \/ \E e \in DAQExps : \E k \in ThreadIds(e) : DAQScanThread_wait(e, k)
    \/ \E e \in DAQExps : \E k \in ThreadIds(e) : DAQScanThread_read(e, k)
    \/ \E e \in DAQExps : \E k \in ThreadIds(e) : DAQScanThread_return(e, k)
    \/ \E e \in DAQExps : \E k \in ThreadIds(e) : DAQScanThread_finish(e, k)
    \/ \E e \in DAQExps : \E k \in ThreadIds(e) : DAQStatThread_started(e, k)
    \/ \E e \in DAQExps : \E k \in ThreadIds(e) : DAQStatThread_loop(e, k)
    \/ \E e \in DAQExps : \E k \in ThreadIds(e) : DAQStatThread_read(e, k)
    \/ \E e \in DAQExps : \E k \in ThreadIds(e) : DAQStatThread_finish(e, k)
    \/ \E e \in DAQExps : \E k \in ThreadIds(e) : Thread_exit(e, k)
    \/ AxisSettle

Spec == Init /\ [][Next]_vars

\* the user works with FSRS Scan 2
NextFSRS ==
    \/ \E e \in FSRSExps : PressStart(e)
    \/ \E e \in FSRSExps : SelectType(e)
    \/ \E e \in FSRSExps : SelectStage(e)
    \/ \E e \in FSRSExps : ClosePlot(e)
    \/ DispatchStarted
    \/ DispatchUpdate
    \/ DispatchFinished
    \/ \E e \in FSRSExps : \E k \in ThreadIds(e) : FSRSThread_started(e, k)
    \/ \E e \in FSRSExps : \E k \in ThreadIds(e) : FSRSThread_prepare(e, k)
    \/ \E e \in FSRSExps : \E k \in ThreadIds(e) : FSRSThread_loop(e, k)
    \/ \E e \in FSRSExps : \E k \in ThreadIds(e) : FSRSThread_goto_first(e, k)
    \/ \E e \in FSRSExps : \E k \in ThreadIds(e) : FSRSThread_gr_close(e, k)
    \/ \E e \in FSRSExps : \E k \in ThreadIds(e) : FSRSThread_gr_read(e, k)
    \/ \E e \in FSRSExps : \E k \in ThreadIds(e) : FSRSThread_gr_open(e, k)
    \/ \E e \in FSRSExps : \E k \in ThreadIds(e) : FSRSThread_inner(e, k)
    \/ \E e \in FSRSExps : \E k \in ThreadIds(e) : FSRSThread_read(e, k)
    \/ \E e \in FSRSExps : \E k \in ThreadIds(e) : FSRSThread_goto_next(e, k)
    \/ \E e \in FSRSExps : \E k \in ThreadIds(e) : FSRSThread_return(e, k)
    \/ \E e \in FSRSExps : \E k \in ThreadIds(e) : FSRSThread_close(e, k)
    \/ \E e \in FSRSExps : \E k \in ThreadIds(e) : FSRSThread_finish(e, k)
    \/ \E e \in FSRSExps : \E k \in ThreadIds(e) : Thread_exit(e, k)
    \/ AxisSettle

SpecFSRS == Init /\ [][NextFSRS]_vars

\* the user works with FSRS Scan 2 and a reference input, and device calls
\* may raise
NextRef ==
    \/ \E e \in FSRSExps : PressStart(e)
    \/ \E e \in FSRSExps : SelectReference(e)
    \/ SetWait
    \/ \E e \in FSRSExps : ClosePlot(e)
    \/ DispatchStarted
    \/ DispatchUpdate
    \/ DispatchFinished
    \/ \E e \in FSRSExps : \E k \in ThreadIds(e) : FSRSThread_started(e, k)
    \/ \E e \in FSRSExps : \E k \in ThreadIds(e) : FSRSThread_prepare(e, k)
    \/ \E e \in FSRSExps : \E k \in ThreadIds(e) : FSRSThread_loop(e, k)
    \/ \E e \in FSRSExps : \E k \in ThreadIds(e) : FSRSThread_goto_first(e, k)
    \/ \E e \in FSRSExps : \E k \in ThreadIds(e) : FSRSThread_gr_close(e, k)
    \/ \E e \in FSRSExps : \E k \in ThreadIds(e) : FSRSThread_gr_read(e, k)
    \/ \E e \in FSRSExps : \E k \in ThreadIds(e) : FSRSThread_gr_open(e, k)
    \/ \E e \in FSRSExps : \E k \in ThreadIds(e) : FSRSThread_inner(e, k)
    \/ \E e \in FSRSExps : \E k \in ThreadIds(e) : FSRSThread_read(e, k)
    \/ \E e \in FSRSExps : \E k \in ThreadIds(e) : FSRSThread_goto_next(e, k)
    \/ \E e \in FSRSExps : \E k \in ThreadIds(e) : FSRSThread_return(e, k)
    \/ \E e \in FSRSExps : \E k \in ThreadIds(e) : FSRSThread_close(e, k)
    \/ \E e \in FSRSExps : \E k \in ThreadIds(e) : FSRSThread_finish(e, k)
    \/ \E e \in FSRSExps : \E k \in ThreadIds(e) : FSRSThread_device_error(e, k)
    \/ \E e \in FSRSExps : \E k \in ThreadIds(e) : Thread_exit(e, k)
    \/ AxisSettle

SpecRef == Init /\ [][NextRef]_vars

\* the user works with XC Scan
NextXC ==
    \/ \E e \in XCExps : PressStart(e)
    \/ \E e \in XCExps : SelectType(e)
    \/ \E e \in XCExps : ClosePlot(e)
    \/ DispatchStarted
    \/ DispatchUpdate
    \/ DispatchFinished
    \/ \E e \in XCExps : \E k \in ThreadIds(e) : XCThread_started(e, k)
    \/ \E e \in XCExps : \E k \in ThreadIds(e) : XCThread_kerr(e, k)
    \/ \E e \in XCExps : \E k \in ThreadIds(e) : XCThread_bg_read(e, k)
    \/ \E e \in XCExps : \E k \in ThreadIds(e) : XCThread_open(e, k)
    \/ \E e \in XCExps : \E k \in ThreadIds(e) : XCThread_loop(e, k)
    \/ \E e \in XCExps : \E k \in ThreadIds(e) : XCThread_goto_first(e, k)
    \/ \E e \in XCExps : \E k \in ThreadIds(e) : XCThread_inner(e, k)
    \/ \E e \in XCExps : \E k \in ThreadIds(e) : XCThread_wait(e, k)
    \/ \E e \in XCExps : \E k \in ThreadIds(e) : XCThread_read(e, k)
    \/ \E e \in XCExps : \E k \in ThreadIds(e) : XCThread_goto_next(e, k)
    \/ \E e \in XCExps : \E k \in ThreadIds(e) : XCThread_return(e, k)
    \/ \E e \in XCExps : \E k \in ThreadIds(e) : XCThread_close(e, k)
    \/ \E e \in XCExps : \E k \in ThreadIds(e) : XCThread_finish(e, k)
    \/ \E e \in XCExps : \E k \in ThreadIds(e) : Thread_exit(e, k)
    \/ AxisSettle

SpecXC == Init /\ [][NextXC]_vars

\* ------------------------------------------------------------------------
\* FSRSAcquire
\* ------------------------------------------------------------------------

\* the ratio A of a frame readNframes returns
RawValues == {1, 2}

\* the ratio channel after the transform of FSRSAcquire.onUpdate, in
\* thousandths: -ln(A) for mode 0, -log10(A) for mode 1, A otherwise
apply_transform(mode, a) ==
    IF mode = 0 THEN <<0, -693>>[a]
    ELSE IF mode = 1 THEN <<0, -301>>[a]
    ELSE 1000 * a

\* the channels [A, B] onUpdate keeps of a frame val (channel C is handled
\* as B is)
Channels(mode, val) == <<apply_transform(mode, val.A), val.B>>

\* data + (x - data) / float(N) on fractions <<numerator, denominator>>
mean_update(d, x, N) == <<d[1] * N + x * d[2] - d[1], d[2] * N>>

\* FSRSAcquire.onUpdate that divides by the number of sets averaged before
\* this one
Acquire_onUpdate_lags(e, val) ==
    LET x == Channels(acq.mode, val)
        N == acq.N + 1
    IN  acq' = [acq EXCEPT !.intdata = Append(@, x),
                           !.N = N,
                           !.data = IF N = 1 THEN [c \in 1..2 |-> <<x[c], 1>>]
                                    ELSE [c \in 1..2 |-> mean_update(acq.data[c], x[c], N - 1)]]

\* FSRSAcquire.onUpdate(val)
Acquire_onUpdate(e, val) ==
    LET x == Channels(acq.mode, val)
        N == acq.N + 1
    IN  acq' = [acq EXCEPT !.intdata = Append(@, x),
                           !.N = N,
                           !.data = IF N = 1 THEN [c \in 1..2 |-> <<x[c], 1>>]
                                    ELSE [c \in 1..2 |-> mean_update(acq.data[c], x[c], N)]]

\* FSRSAcquire.onStart
Acquire_onStart(e, argv) ==
    IF running[e]
    THEN stop(e) /\ UNCHANGED acq
    ELSE /\ acq' = [acq EXCEPT !.N = 0, !.data = <<>>, !.intdata = <<>>]
         /\ start(e, argv)

\* the user presses the Start/Stop button of FSRSAcquire
PressAcquire(e) ==
    /\ IsFSRSAcquire(e)
    /\ enabled[e][propindex_start[e]]
    /\ \E sets \in 1..MaxAcquireSets : Acquire_onStart(e, Argv(<<>>, 0, sets, acq.mode))
    /\ lastCall' = Call("onStart", e, 0)
    /\ UNCHANGED <<queue, enabled, running, plotWnd, data, bg, typeChoice, saved, timepoints, scanPoints, progress>>
    /\ UnchangedSettings
    /\ UnchangedDevices

\* the user selects another entry of the 'Mode' choice of FSRSAcquire
SelectAcquireMode(e) ==
    /\ IsFSRSAcquire(e)
    /\ enabled[e][propindex_mode[e]]
    /\ \E m \in (0..2) \ {acq.mode} : acq' = [acq EXCEPT !.mode = m]
    /\ UNCHANGED <<scanThread, running, btnOldLabel, threads, queue, enabled, handleLabel,
                   plotWnd, data, bg, typeChoice, saved, timepoints, scanPoints, progress, lastCall>>
    /\ UnchangedSettings
    /\ UnchangedDevices

\* the main loop processes a posted FSRSAcquire.onUpdate
DispatchAcquireUpdate ==
    /\ queue # <<>>
    /\ Head(queue).fn = "onUpdate"
    /\ IsFSRSAcquire(Head(queue).exp)
    /\ Acquire_onUpdate(Head(queue).exp, Head(queue).val)
    /\ queue' = Tail(queue)
    /\ lastCall' = Call("onUpdate", Head(queue).exp, 0)
    /\ UNCHANGED <<scanThread, running, btnOldLabel, threads, enabled, handleLabel,
                   plotWnd, data, bg, typeChoice, saved, timepoints, scanPoints, progress>>
    /\ UnchangedSettings
    /\ UnchangedDevices

\* ---- AcquireThread.run ----

\* wx.CallAfter(self.parent.onStarted); time.sleep(0.1); cset = 0
AcquireThread_started(e, k) ==
    /\ IsFSRSAcquire(e)
    /\ threads[e][k].pc = "run"
    /\ queue' = Append(queue, Call("onStarted", e, 0))
    /\ setPc(e, k, "loop")
    /\ UnchangedDevices
    /\ UnchangedByThread

\* while(self.canQuit.isSet() == 0 and cset < self.sets)
AcquireThread_loop(e, k) ==
    LET t == threads[e][k] IN
    /\ IsFSRSAcquire(e)
    /\ t.pc = "loop"
    /\ setPc(e, k, IF ~t.canQuit /\ t.cset < t.sets THEN "read" ELSE "finish")
    /\ UNCHANGED queue
    /\ UnchangedDevices
    /\ UnchangedByThread

\* val = self.ccd.readNframes(...); wx.CallAfter(self.parent.onUpdate, val); cset += 1
AcquireThread_read(e, k) ==
    LET t == threads[e][k] IN
    /\ IsFSRSAcquire(e)
    /\ t.pc = "read"
    /\ \E a \in RawValues :
          queue' = Append(queue, Call("onUpdate", e, [A |-> a, B |-> read(t.cset)]))
    /\ threads' = [threads EXCEPT ![e][k].pc = "loop", ![e][k].cset = @ + 1]
    /\ UnchangedDevices
    /\ UnchangedByThread

\* wx.CallAfter(self.parent.onFinished)
AcquireThread_finish(e, k) ==
    /\ IsFSRSAcquire(e)
    /\ threads[e][k].pc = "finish"
    /\ queue' = Append(queue, Call("onFinished", e, 0))
    /\ setPc(e, k, "end")
    /\ UnchangedDevices
    /\ UnchangedByThread

AcquireExps == {e \in Exps : IsFSRSAcquire(e)}

\* the user works with FSRS Acquire
NextAcquire ==
    \/ \E e \in AcquireExps : PressAcquire(e)
    \/ \E e \in AcquireExps : SelectAcquireMode(e)
    \/ DispatchStarted
    \/ DispatchAcquireUpdate
    \/ DispatchFinished
    \/ \E e \in AcquireExps : \E k \in ThreadIds(e) : AcquireThread_started(e, k)
    \/ \E e \in AcquireExps : \E k \in ThreadIds(e) : AcquireThread_loop(e, k)
    \/ \E e \in AcquireExps : \E k \in ThreadIds(e) : AcquireThread_read(e, k)
    \/ \E e \in AcquireExps : \E k \in ThreadIds(e) : AcquireThread_finish(e, k)
    \/ \E e \in AcquireExps : \E k \in ThreadIds(e) : Thread_exit(e, k)

SpecAcquire == Init /\ [][NextAcquire]_vars

\* ------------------------------------------------------------------------
\* Utility functions and ModProp.setValue, applied to drawn arguments
\* ------------------------------------------------------------------------

\* FSRSutils.onAxisRangeChange that leaves 'Till' as entered
onAxisRangeChange_keeps(st) == st

\* FSRSutils.onAxisRangeChange on the stage properties st: in linear mode
\* 'Till' is rewritten to match the step size (mode 1, logarithmic, is not
\* among the settings of this model)
onAxisRangeChange(st) ==
    IF st.mode = 0
    THEN LET N == Max(2, Abs(st.till - st.from) \div Abs(st.step) + 1)
         IN  [st EXCEPT !.till = (N - 1) * st.step + st.from]
    ELSE st

\* Python values: integers, strings and None
PyInt(n) == [k |-> "int", v |-> n]

PyStr(s) == [k |-> "str", v |-> s]

PyNone == [k |-> "none", v |-> 0]

\* val == n, val < n, val > n and val >= n for an integer n (Python 2:
\* None orders before every number, every string after)
py_eq(val, n) == val.k = "int" /\ val.v = n

py_lt(val, n) == IF val.k = "int" THEN val.v < n ELSE val.k = "none"

py_gt(val, n) == IF val.k = "int" THEN val.v > n ELSE val.k = "str"

py_ge(val, n) == IF val.k = "int" THEN val.v >= n ELSE val.k = "str"

\* int(val): ok is FALSE when int() raises
py_int(val) ==
    IF val.k = "int" THEN [ok |-> TRUE, v |-> val.v]
    ELSE IF val = PyStr("7") THEN [ok |-> TRUE, v |-> 7]
    ELSE [ok |-> FALSE, v |-> 0]

\* ModProp.setValue that assigns before it checks
setValue_assigns_first(prop, val) ==
    LET invalid ==
            \/ prop.type \in {"checkbox", "toggle"} /\ ~py_eq(val, 0) /\ ~py_eq(val, 1)
            \/ prop.type = "choice" /\ ~py_eq(val, 0)
                  /\ (py_lt(val, 0) \/ py_ge(val, prop.choices))
            \/ prop.type = "progress" /\ (py_lt(val, 0) \/ py_gt(val, 100))
            \/ prop.type = "spin" /\ ~py_int(val).ok
    IN  [raised |-> invalid, value |-> val]

\* ModProp.setValue(val) on a property of the given type, number of choices
\* and value: whether it raises ValueError, and the value stored afterwards
setValue(prop, val) ==
    IF prop.type \in {"checkbox", "toggle"} /\ ~py_eq(val, 0) /\ ~py_eq(val, 1)
    THEN [raised |-> TRUE, value |-> prop.value]
    ELSE IF prop.type = "choice" /\ ~py_eq(val, 0)
            /\ (py_lt(val, 0) \/ py_ge(val, prop.choices))
    THEN [raised |-> TRUE, value |-> prop.value]
    ELSE IF prop.type = "progress" /\ (py_lt(val, 0) \/ py_gt(val, 100))
    THEN [raised |-> TRUE, value |-> prop.value]
    ELSE IF prop.type = "spin"
    THEN IF py_int(val).ok
         THEN [raised |-> FALSE, value |-> PyInt(py_int(val).v)]
         ELSE [raised |-> TRUE, value |-> prop.value]
    ELSE [raised |-> FALSE, value |-> val]

\* the arguments the functions are applied to
StepValues == {-301, -2, -1, 0, 1, 2, 301}

RangeValues == -3..3

PropTypes ==
    {"label", "input", "choice", "button", "checkbox", "toggle", "file", "progress", "spin"}

PyValues ==
    {PyInt(n) : n \in {-1, 0, 1, 2, 3, 100, 101}} \cup {PyStr("7"), PyStr("x"), PyNone}

\* the properties setValue is applied to: a choice has 0, 1 or 3 entries
Props ==
    {[type |-> ty, choices |-> 0, value |-> PyInt(v)] :
        ty \in PropTypes \ {"choice"}, v \in {0, 1}}
    \cup {[type |-> "choice", choices |-> n, value |-> PyInt(0)] : n \in {0, 1, 3}}

\* what an application of a function leaves alone
UnchangedProgram ==
    UNCHANGED <<scanThread, running, btnOldLabel, threads, queue, enabled, handleLabel,
                plotWnd, data, bg, typeChoice, stage, refChoice, saved, timepoints, scanPoints, progress, acq,
                modProp, mod, app, grid, motor, nishutter, refWait, axisGoto, axisMoving, shutterWrite, lastCall>>

\* the most modules in a list handed to initialize
MaxModules == 3

\* the module names in those lists
ModuleNames == {"SR830 Lock-In", "Dummy Axis"}

\* the resources visa lists: lock-ins on the GPIB bus, other GPIB devices,
\* and devices on another bus
Resources == {"GPIB SR830", "GPIB", "ASRL"}

\* the lists of at most n elements of S
SeqsUpTo(S, n) == UNION {[1..k -> S] : k \in 0..n}

\* FSRSModule.initialize that counts its same-named peers after it as well
initialize_counts_all(others, me) ==
    Cardinality({j \in 1..Len(others) : j # me /\ others[j] = others[me]})

RECURSIVE initialize_from(_, _, _, _)
\* the loop of FSRSModule.initialize from the i-th module of others on
initialize_from(others, me, i, count) ==
    IF i > Len(others) \/ i = me THEN count
    ELSE initialize_from(others, me, i + 1,
                         IF others[i] = others[me] THEN count + 1 ELSE count)

\* FSRSModule.initialize(others) of the module at position me of others
\* (others holds the names): the same-named modules before it
initialize(others, me) == initialize_from(others, me, 1, 0)

RECURSIVE locate_from(_, _, _, _)
\* the loop of locateSR830 from the i-th resource on
locate_from(res, skp, i, count) ==
    IF i > Len(res) THEN 0
    ELSE IF res[i] = "GPIB SR830"
    THEN IF count + 1 > skp THEN i ELSE locate_from(res, skp, i + 1, count + 1)
    ELSE locate_from(res, skp, i + 1, count)

\* locateSR830(skp): the position in the resource list of the lock-in found
\* after skipping skp of them; 0 stands for the address ""
locateSR830(res, skp) == locate_from(res, skp, 1, 0)

\* the most modules in a list handed to FSRSScan2.initialize
MaxOthers == 2

\* the classes of those modules, as positions in ModuleList: the four devices
\* and an experiment
ModuleClasses == 1..5

\* hasattr(m, "readNframes") for a module of class c
has_readNframes(c) == ModuleList[c].name = "Dummy Camera"

\* FSRSScan2 after construction: no collaborator lists yet, empty choices
FSRSScan2_new ==
    [cameras |-> <<>>, axes |-> <<>>, shutters |-> <<>>, inputs |-> <<>>,
     ccdchoices |-> <<>>, axeschoices |-> <<>>, shutterchoices |-> <<>>,
     inputchoices |-> <<>>, camera |-> 0, axis |-> 0, shutter |-> 0, ref |-> 0]

RECURSIVE FSRSScan2_collect(_, _, _)
\* the loop of FSRSScan2.initialize over others from the i-th module on;
\* the lists hold positions in others
FSRSScan2_collect(o, others, i) ==
    IF i > Len(others) THEN o
    ELSE LET m == ModuleList[others[i]]
             o1 == IF m.type = "input"
                   THEN [o EXCEPT !.inputs = Append(@, i),
                                  !.inputchoices = Append(@, m.name)]
                   ELSE o
             o2 == IF m.type = "input" /\ has_readNframes(others[i])
                   THEN [o1 EXCEPT !.cameras = Append(@, i),
                                   !.ccdchoices = Append(@, m.name)]
                   ELSE o1
             o3 == IF m.type = "output"
                   THEN [o2 EXCEPT !.shutters = Append(@, i),
                                   !.shutterchoices = Append(@, m.name)]
                   ELSE o2
             o4 == IF m.type = "axis"
                   THEN [o3 EXCEPT !.axes = Append(@, i),
                                   !.axeschoices = Append(@, m.name)]
                   ELSE o3
         IN  FSRSScan2_collect(o4, others, i + 1)

\* FSRSScan2.initialize that keeps the lists of the call before
FSRSScan2_initialize_keeps(o, others) ==
    FSRSScan2_collect([o EXCEPT !.inputchoices = IF @ = <<>> THEN <<"No">> ELSE @,
                                !.camera = 0, !.axis = 0, !.shutter = 0, !.ref = 0],
                      others, 1)

\* FSRSScan2.initialize(others) on the object o: the lists are emptied and
\* filled again, setChoices stores the choices and selects entry 0
FSRSScan2_initialize(o, others) ==
    FSRSScan2_collect([FSRSScan2_new EXCEPT !.inputchoices = <<"No">>], others, 1)

\* the frames PIXIS100.readNframes asks for on top of N and discards
Settle == 20

\* the value attempt has to exceed for readNframes to give up
MaxAttempts == 5

\* the number of driver results drawn for one call of readNframes
MaxReads == 7

\* the N passed to readNframes
NFrames == 2

\* what cam.readNFrames(N + 20) returns, as the number of frames in it: 0
\* for the empty list, a frame too few, or all frames asked for
DriverReads == {0, NFrames + Settle - 1, NFrames + Settle}

\* the all-ones triple
Ones(calls) == [kind |-> "ones", calls |-> calls, attempt |-> 0, A |-> {}, B |-> {}]

\* data[first::2] of the M frames after the first Settle have been cut:
\* the numbers, within the M frames read, of the frames averaged
EverySecond(M, first) ==
    {f \in (Settle + 1)..M : (f - Settle - 1) >= first /\ (f - Settle - 1 - first) % 2 = 0}

\* the triple [C, A, B] computed from the M frames read by the given attempt
Triple(M, attempt, flip) ==
    [kind |-> "data", calls |-> attempt, attempt |-> attempt,
     A |-> EverySecond(M, IF flip THEN 0 ELSE 1),
     B |-> EverySecond(M, IF flip THEN 1 ELSE 0)]

RECURSIVE readNframes_loop(_, _, _, _, _)
\* the while loop of PIXIS100.readNframes, entered with the given value of
\* attempt; canQuit is set from the cancelFrom-th driver call on
readNframes_loop(N, reads, cancelFrom, flip, attempt) ==
    LET a == attempt + 1
        M == reads[a]
        full == M # 0 /\ M >= N + Settle
    IN  IF cancelFrom <= a THEN Ones(a)
        ELSE IF a > MaxAttempts THEN Ones(a)
        ELSE IF full THEN Triple(M, a, flip)
        ELSE readNframes_loop(N, reads, cancelFrom, flip, a)

\* PIXIS100.readNframes(N, canQuit) for the results reads of the driver
readNframes(N, reads, cancelFrom, flip) ==
    readNframes_loop(N, reads, cancelFrom, flip, 0)

RECURSIVE initializeModules_from(_, _, _)
\* the loop of pyFSRS.initializeModules from the i-th module on; raises holds
\* the modules whose initialize raises. An exception leaves the loop and
\* pyFSRS.__init__, so the window is neither bound to its close handler nor shown
initializeModules_from(raises, i, invoked) ==
    IF i > Len(ModuleList) THEN [invoked |-> invoked, completed |-> TRUE]
    ELSE IF i \in raises THEN [invoked |-> Append(invoked, i), completed |-> FALSE]
    ELSE initializeModules_from(raises, i + 1, Append(invoked, i))

\* pyFSRS.initializeModules() within pyFSRS.__init__: the modules whose
\* initialize is invoked, and whether the constructor completes
initializeModules(raises) == initializeModules_from(raises, 1, <<>>)

\* the largest number a howMany() of a module file returns
MaxInstances == 3

\* the module files handed to load_from_file: the extension, whether the
\* file defines a class named like the file, and its howMany function
\* (has: whether it defines one, n: what it returns)
ModuleFiles ==
    {[ext |-> x, class |-> c, howMany |-> h] :
        x \in {".py", ".pyc", ".PY"}, c \in BOOLEAN,
        h \in {[has |-> FALSE, n |-> 0]} \cup {[has |-> TRUE, n |-> n] : n \in 0..MaxInstances}}

\* load_from_file that appends one instance N times
load_from_file_repeats(file) ==
    IF file.class
    THEN [none |-> FALSE,
          inst |-> [i \in 1..(IF file.howMany.has THEN file.howMany.n ELSE 1) |-> 1]]
    ELSE [none |-> TRUE, inst |-> <<>>]

RECURSIVE load_instances(_, _, _)
\* the loop 'for i in range(N)' of load_from_file from i on: every pass
\* calls the class, and the i-th call yields the object i + 1
load_instances(N, i, inst) ==
    IF i >= N THEN inst ELSE load_instances(N, i + 1, Append(inst, i + 1))

\* load_from_file(filepath) of an existing file: None, or the list of the
\* instances created
load_from_file(file) ==
    IF file.class
    THEN LET N == IF file.howMany.has THEN file.howMany.n ELSE 1
         IN  [none |-> FALSE, inst |-> load_instances(N, 0, <<>>)]
    ELSE [none |-> TRUE, inst |-> <<>>]

\* a behaviour applies one function to one choice of arguments
Apply_formatFSRSFilename ==
    /\ calc.fn = "none"
    /\ \E type \in 0..2, step \in StepValues, set \in 0..MaxSets, shutter \in {0, 1} :
          calc' = [fn |-> "formatFSRSFilename", type |-> type, step |-> step,
                   set |-> set, shutter |-> shutter,
                   name |-> formatFSRSFilename(type, Basename, step, set, shutter)]
    /\ UnchangedProgram

\* the user edits From, Till or Step Size of a linear stage setting: the
\* points prepareScanPoints gives for the properties as entered, and after
\* onAxisRangeChange has handled the edit
Apply_onAxisRangeChange ==
    /\ calc.fn = "none"
    /\ \E from \in RangeValues, till \in RangeValues, steps \in RangeValues \ {0} :
          LET st == [mode |-> 0, from |-> from, till |-> till, step |-> steps,
                     random |-> 0, usefile |-> ""]
          IN  calc' = [fn |-> "onAxisRangeChange", st |-> st,
                       points |-> prepareScanPoints(st, <<>>),
                       after |-> onAxisRangeChange(st),
                       pointsAfter |-> prepareScanPoints(onAxisRangeChange(st), <<>>)]
    /\ UnchangedProgram

Apply_setValue ==
    /\ calc.fn = "none"
    /\ \E prop \in Props, val \in PyValues :
          calc' = [fn |-> "setValue", prop |-> prop, val |-> val,
                   result |-> setValue(prop, val)]
    /\ UnchangedProgram

\* every module of a list is initialised; the lock-ins locate their address
Apply_initialize ==
    /\ calc.fn = "none"
    /\ \E others \in SeqsUpTo(ModuleNames, MaxModules),
          res \in SeqsUpTo(Resources, MaxModules) :
          LET count == [me \in 1..Len(others) |-> initialize(others, me)]
          IN  calc' = [fn |-> "initialize", others |-> others, res |-> res,
                       count |-> count,
                       adr |-> [me \in 1..Len(others) |->
                                   IF others[me] = "SR830 Lock-In"
                                   THEN locateSR830(res, count[me]) ELSE 0]]
    /\ UnchangedProgram

\* FSRSScan2.initialize on a new object, and once more on that object after
\* the modules have been loaded again
Apply_FSRSScan2_initialize ==
    /\ \E others \in SeqsUpTo(ModuleClasses, MaxOthers) :
          \/ /\ calc.fn = "none"
             /\ calc' = [fn |-> "FSRSScan2.initialize", others |-> others, calls |-> 1,
                         obj |-> FSRSScan2_initialize(FSRSScan2_new, others)]
          \/ /\ calc.fn = "FSRSScan2.initialize"
             /\ calc.calls = 1
             /\ calc' = [fn |-> "FSRSScan2.initialize", others |-> others, calls |-> 2,
                         obj |-> FSRSScan2_initialize(calc.obj, others)]
    /\ UnchangedProgram

\* readNframes is called; the driver fails or delivers, the user may stop
\* the scan during one of the reads (cancelFrom beyond MaxReads: never)
Apply_readNframes ==
    /\ calc.fn = "none"
    /\ \E reads \in [1..MaxReads -> DriverReads], cancelFrom \in 1..(MaxReads + 1),
          flip \in BOOLEAN :
          calc' = [fn |-> "readNframes", N |-> NFrames, reads |-> reads,
                   cancelFrom |-> cancelFrom, flip |-> flip,
                   result |-> readNframes(NFrames, reads, cancelFrom, flip)]
    /\ UnchangedProgram

\* the program starts; the initialize of some modules raises
Apply_initializeModules ==
    /\ calc.fn = "none"
    /\ \E raises \in SUBSET (1..Len(ModuleList)) :
          calc' = [fn |-> "initializeModules", raises |-> raises,
                   result |-> initializeModules(raises)]
    /\ UnchangedProgram

\* a module file is loaded
Apply_load_from_file ==
    /\ calc.fn = "none"
    /\ \E file \in ModuleFiles :
          calc' = [fn |-> "load_from_file", file |-> file,
                   result |-> load_from_file(file)]
    /\ UnchangedProgram

NextCalc ==
    \/ Apply_formatFSRSFilename
    \/ Apply_load_from_file
    \/ Apply_initializeModules
    \/ Apply_readNframes
    \/ Apply_onAxisRangeChange
    \/ Apply_setValue
    \/ Apply_initialize
    \/ Apply_FSRSScan2_initialize

SpecCalc == Init /\ [][NextCalc]_vars

\* ------------------------------------------------------------------------
\* Claims on the experiment lifecycle (specification Spec)
\* ------------------------------------------------------------------------

AliveThreads(e) == {k \in ThreadIds(e) : is_alive(threads[e][k])}

\* the label the start/stop button of e was created with
InitialLabel(e) == ModuleList[e].props[propindex_start[e]].value

\* C1: every thread of an experiment module that is alive is the one the
\* module's handle scanThread names, so at most one scan task per experiment
\* module is alive at any time; a Start that reaches Experiment.start while
\* the handle is set has spawned nothing.
C1_OneTaskPerExperiment ==
    \A e \in Exps :
        /\ \A k \in AliveThreads(e) : scanThread[e] = k
        /\ Cardinality(AliveThreads(e)) <= 1

\* C1 witness: Experiment.start was just called with the handle set, while the
\* task it names is alive
C1_Witness ==
    \E e \in Exps :
        /\ lastCall = Call("onStart", e, 1)
        /\ scanThread[e] # 0
        /\ is_alive(threads[e][scanThread[e]])

\* C2: once the controller has processed onFinished of experiment e, the
\* task handle of e is released (scanThread is None), whether the worker was
\* still alive or had already exited when the handler ran.
C2_HandleReleasedAfterFinished ==
    \A e \in Exps : lastCall = Call("onFinished", e, 0) => scanThread[e] = 0

\* C7: while experiment e is between its onStarted and its onFinished, every
\* widget of every module is disabled except the start/stop button of e,
\* which is enabled.
C7_FrozenWhileRunning ==
    \A e \in Exps :
        running[e] =>
            \A m \in Modules : \A i \in PropIdx(m) :
                enabled[m][i] <=> (m = e /\ i = propindex_start[e])

\* C8: right after the controller has processed onFinished of e, the running
\* flag of e is False, every widget of every module is enabled, and the
\* start/stop button of e shows the label it had before the scan was started
\* (the label it was created with: it shows STOP only while a scan is on).
C8_RestoredAfterFinished ==
    \A e \in Exps :
        lastCall = Call("onFinished", e, 0) =>
            /\ ~running[e]
            /\ \A m \in Modules : \A i \in PropIdx(m) : enabled[m][i]
            /\ handleLabel[e][propindex_start[e]] = InitialLabel(e)
            /\ btnOldLabel[e] = InitialLabel(e)

\* C8 witness: onFinished of a scan was processed, after the button had shown STOP
C8_Witness ==
    \E e \in Exps :
        /\ lastCall = Call("onFinished", e, 0)
        /\ Len(threads[e]) > 0
        /\ handleLabel[e][propindex_start[e]] = "Scan"

FSRSThreads == {t \in UNION {{threads[e][k] : k \in ThreadIds(e)} : e \in FSRSExps} : TRUE}

\* no update of experiment e is queued behind a finished notification of e
NoUpdateAfterFinished(e) ==
    \A i, j \in 1..Len(queue) :
        (i < j /\ queue[i].exp = e /\ queue[j].exp = e /\ queue[i].fn = "onFinished")
            => queue[j].fn # "onUpdate"

\* C3: every FSRSScan2 scan thread that has come to the end of run(),
\* cancelled or not, has posted onFinished (it did not die before), the last
\* axis command then is goto(points[0]), the last shutter command is
\* write(0), and no onUpdate follows its onFinished.
C3_StopReturnsAxisClosesShutter ==
    \A e \in FSRSExps : \A k \in ThreadIds(e) :
        LET t == threads[e][k] IN
        t.pc \in {"end", "raised"} =>
            /\ t.pc # "raised"
            /\ axisGoto = <<t.points[1]>>
            /\ shutterWrite = <<0>>
            /\ NoUpdateAfterFinished(e)

\* C6: no FSRSScan2 scan thread is ever created with an empty list of scan
\* points.
C6_EmptyPointsRejected ==
    \A t \in FSRSThreads : t.points # <<>>

\* C10: no FSRSScan2 scan thread has acquired at a scan point without having
\* seen is_moving() return False after the goto to that point.
C10_AcquireAfterAxisStopped ==
    \A t \in FSRSThreads : ~t.blind

\* ------------------------------------------------------------------------
\* Claims on the XCScan scan thread (specification SpecXC)
\* ------------------------------------------------------------------------

XCThreads == {t \in UNION {{threads[e][k] : k \in ThreadIds(e)} : e \in XCExps} : TRUE}

\* C4: every XCScan scan thread over a non-empty list of points that is no
\* longer running has left run() through its last statement, the one post of
\* onFinished; it has not died on the way.
C4_XCThreadPostsFinished ==
    \A t \in XCThreads : (t.points # <<>> /\ ~is_alive(t)) => t.pc = "exited"

C11_WaitTimeRestored ==
    [][\A e \in FSRSExps : \A k \in ThreadIds(e) :
          LET t == threads[e][k] IN
          (/\ t.pc \notin {"end", "raised", "exited"}
           /\ threads'[e][k].pc \in {"end", "raised"}
           /\ t.old_wait_time # "unset")
          => refWait' = t.old_wait_time]_vars

\* a step of a scan thread of FSRSScan2: its position in run() changes and
\* no posted call is taken from the queue
FSRSThreadStep ==
    /\ Len(queue') >= Len(queue)
    /\ \E e \in FSRSExps : \E k \in ThreadIds(e) : threads'[e][k].pc # threads[e][k].pc

\* C12: no step of an FSRSScan2 scan thread changes a property value of a
\* module or a field of the experiment; all it does to them is post calls.
C12_ThreadWritesNothing ==
    [][FSRSThreadStep =>
          UNCHANGED <<refWait, stage, refChoice, typeChoice, enabled, handleLabel,
                      scanThread, running, btnOldLabel, plotWnd, data>>]_vars

\* ------------------------------------------------------------------------
\* Claims on the files FSRSScan2 writes (specification SpecFSRS)
\* ------------------------------------------------------------------------

\* C13: every file FSRSScan2.onUpdate has written holds the ratio channel
\* transformed as the measurement type of its scan prescribes (FSRS -ln(A),
\* TA -log10(A), T/T0 A itself), and its name was formatted with that type,
\* whatever the stage stepping mode.
C13_TypeSelectsTransformAndName ==
    \A i \in 1..Len(saved) :
        /\ saved[i].A = transform(saved[i].type)
        /\ saved[i].ftype = saved[i].type

\* C15: two files written for the same scan from acquisitions that differ in
\* ground/excited state, scan point or set index have different names.
C15_DistinctFileNames ==
    \A i, j \in 1..Len(saved) :
        (saved[i].scan = saved[j].scan /\ saved[i].key # saved[j].key)
        => saved[i].name # saved[j].name

\* the number of elements of the sequence s equal to v
Count(s, v) == Cardinality({i \in 1..Len(s) : s[i] = v})

\* s and t hold the same values with the same multiplicities
IsPermutationOf(s, t) ==
    /\ Len(s) = Len(t)
    /\ \A i \in 1..Len(s) : Count(s, s[i]) = Count(t, s[i])

IsAscending(s) == \A i \in 1..(Len(s) - 1) : s[i] <= s[i + 1]

\* C19: the points an FSRSScan2 scan is started with are a permutation of
\* the points prepareScanPoints returns for the same stage properties with
\* Random unchecked, and the timepoints file written at that start lists
\* the same values in ascending order.
C19_RandomPermutesOnly ==
    [][\A e \in FSRSExps :
          Len(threads'[e]) > Len(threads[e]) =>
              LET points == threads'[e][Len(threads'[e])].points
                  plain == prepareScanPoints([stage EXCEPT !.random = 0], <<>>)
              IN  /\ IsPermutationOf(points, plain)
                  /\ IsPermutationOf(timepoints', points)
                  /\ IsAscending(timepoints')]_vars

\* C19 witness: a scan with Random checked visits the points in descending
\* order, and the timepoints file lists them in ascending order
C19_Witness ==
    /\ stage.random = 1
    /\ timepoints = <<1, 2>>
    /\ \E t \in FSRSThreads : t.points = <<2, 1>> /\ t.pc = "end"

\* ------------------------------------------------------------------------
\* Claims on the utility functions and setValue (specification SpecCalc)
\* ------------------------------------------------------------------------

\* the three examples of file names: steps of 150.5 fs and -150.5 fs, FSRS,
\* set 2, and step 0, TA, set 0, shutter open
FilenameExamples ==
    /\ formatFSRSFilename(0, Basename, 150 * PosDen + 1, 2, 0)
          = <<"r", "u", "n", "_", "p", "1", "5", "0", "g", "r", "2">>
    /\ formatFSRSFilename(0, Basename, -(150 * PosDen + 1), 2, 1)
          = <<"r", "u", "n", "_", "m", "1", "5", "0", "e", "x", "c", "2">>
    /\ formatFSRSFilename(1, Basename, 0, 0, 1)
          = <<"r", "u", "n", "_", "m", "0", "_", "0">>

\* the tag for ground and excited state
KindTag(type, shutter) ==
    IF type = 0 THEN (IF shutter = 0 THEN <<"g", "r">> ELSE <<"e", "x", "c">>) ELSE <<"_">>

C18_LinearPoints ==
    calc.fn = "onAxisRangeChange" =>
        LET st == calc.st
            count == Len(calc.points)
            span == Abs(st.till - st.from)
        IN  /\ count >= 2
            /\ count = 2 => span < 2 * Abs(st.step)
            /\ count > 2 => (count - 1) * Abs(st.step) <= span /\ span < count * Abs(st.step)
            /\ calc.points[1] = st.from
            /\ calc.points[count] = st.till
            /\ calc.after.till = (count - 1) * st.step + st.from
            /\ calc.after.from = st.from /\ calc.after.step = st.step
            /\ Len(calc.pointsAfter) = count
            /\ calc.pointsAfter[count] = calc.after.till

\* C18 witness: a negative step with stop above start, four points, and
\* stop is rewritten to the other side of start
C18_Witness ==
    /\ calc.fn = "onAxisRangeChange"
    /\ calc.st.from = 0 /\ calc.st.till = 3 /\ calc.st.step = -1
    /\ Len(calc.points) = 4
    /\ calc.after.till = -3

\* whether val is an index of a list of n entries
IsIndex(val, n) == val.k = "int" /\ 0 <= val.v /\ val.v < n

\* whether setValue left the value as it was when it raised
RaiseKeepsValue == calc.result.raised => calc.result.value = calc.prop.value

RECURSIVE ChannelSum(_, _)
ChannelSum(s, c) == IF s = <<>> THEN 0 ELSE s[1][c] + ChannelSum(Tail(s), c)

\* C16: once FSRSAcquire has processed n >= 1 updates x_1..x_n since the
\* last start, its averaged buffer is, for every channel, sum(x_i) / n.
C16_BufferIsMean ==
    acq.intdata # <<>> =>
        \A c \in 1..2 :
            acq.data[c][1] * Len(acq.intdata) = acq.data[c][2] * ChannelSum(acq.intdata, c)

\* C16 witness: three sets with different values have been averaged
C16_Witness ==
    /\ Len(acq.intdata) = 3
    /\ acq.intdata[1][1] # acq.intdata[2][1]
    /\ acq.intdata[3][2] # acq.intdata[1][2]
    /\ acq.N = 3

\* C17: in every state N is the number of updates FSRSAcquire has processed
\* since the last start, which is the length of the list of intermediate
\* sets; a start sets N to 0 and empties the buffer and the list.
C17_CountsUpdates ==
    /\ acq.N = Len(acq.intdata)
    /\ acq.N = 0 => acq.data = <<>>

\* ------------------------------------------------------------------------
\* One ModProp object under its methods (specification SpecProp)
\* ------------------------------------------------------------------------

\* the info of a property: a string, or the (min, max) tuple of a spin
Info(s) == [s |-> s, lo |-> 0, hi |-> 0]

InfoRange(lo, hi) == [s |-> "tuple", lo |-> lo, hi |-> hi]

Infos == {Info(""), Info("int"), Info("open"), InfoRange(2, 100)}

\* the type names passed to setType; "slider" is none of the nine types
TypeNames == PropTypes \cup {"slider"}

\* the numbers of entries of the lists passed to setChoices
ChoiceCounts == {0, 1, 3}

\* the events a widget emits when its label, selection or value is set by
\* the program: a text control announces the new text, the others nothing
widget_events(wnd) == IF wnd \in {"input", "file"} THEN {"EVT_TEXT"} ELSE {}

\* ModProp.createHandle that binds the handler of an input to every change
\* of its text
bound_events_text(wnd) ==
    CASE wnd = "input" -> {"EVT_TEXT", "EVT_KILL_FOCUS"}
      [] wnd = "choice" -> {"EVT_CHOICE"}
      [] wnd = "button" -> {"EVT_BUTTON"}
      [] wnd = "checkbox" -> {"EVT_CHECKBOX"}
      [] wnd = "toggle" -> {"EVT_TOGGLEBUTTON"}
      [] wnd = "file" -> {"EVT_FILE_SELECT"}
      [] wnd = "spin" -> {"EVT_SPINCTRL"}
      [] OTHER -> {}

\* ModProp.createHandle: the events the handler is bound to, by widget
bound_events(wnd) ==
    CASE wnd = "input" -> {"EVT_TEXT_ENTER", "EVT_KILL_FOCUS"}
      [] wnd = "choice" -> {"EVT_CHOICE"}
      [] wnd = "button" -> {"EVT_BUTTON"}
      [] wnd = "checkbox" -> {"EVT_CHECKBOX"}
      [] wnd = "toggle" -> {"EVT_TOGGLEBUTTON"}
      [] wnd = "file" -> {"EVT_FILE_SELECT"}
      [] wnd = "spin" -> {"EVT_SPINCTRL"}
      [] OTHER -> {}

\* how often a widget call of the program runs the bound handler
handler_calls(p) ==
    IF p.handle # "None" /\ p.bound
    THEN Cardinality(widget_events(p.handle) \cap bound_events(p.handle))
    ELSE 0

\* what every method leaves alone
UnchangedByModProp ==
    UNCHANGED <<scanThread, running, btnOldLabel, threads, queue, enabled, handleLabel,
                plotWnd, data, bg, typeChoice, stage, refChoice, saved, timepoints, scanPoints, progress, acq,
                calc, mod, app, grid, motor, nishutter, refWait, axisGoto, axisMoving, shutterWrite, lastCall>>

\* the history fields after a call without a value argument
Called(p, name, raised) ==
    [p EXCEPT !.call = name, !.arg = PyNone, !.same = FALSE, !.fired = 0,
              !.raised = raised]

\* ModProp.setType(val): parsePropertiesDict, its only caller, calls it on
\* the property it has just constructed
ModProp_setType ==
    /\ modProp.call = "__init__"
    /\ \E val \in TypeNames :
          modProp' = IF val \notin PropTypes
                     THEN Called(modProp, "setType", TRUE)
                     ELSE Called([modProp EXCEPT !.type = val], "setType", FALSE)
    /\ UnchangedByModProp

\* ModProp.setChoices(ch) with a list of n entries
ModProp_setChoices ==
    /\ \E n \in ChoiceCounts :
          modProp' = Called([modProp EXCEPT !.choices = n, !.value = PyInt(0)],
                            "setChoices", FALSE)
    /\ UnchangedByModProp

\* ModProp.setInfo(info)
ModProp_setInfo ==
    /\ \E info \in Infos :
          modProp' =
             IF modProp.type = "file"
                   /\ (info.s \notin {"open", "save", "path"} \/ modProp.handle # "None")
             THEN Called(modProp, "setInfo", TRUE)
             ELSE IF modProp.type = "input"
                   /\ (info.s \notin {"float", "int", ""} \/ modProp.handle # "None")
             THEN Called(modProp, "setInfo", TRUE)
             ELSE Called([modProp EXCEPT !.info = info], "setInfo", FALSE)
    /\ UnchangedByModProp

\* ModProp.setEvent(evt), as parsePropertiesDict calls it before the widget exists
ModProp_setEvent ==
    /\ modProp.handle = "None"
    /\ \E evt \in BOOLEAN :
          modProp' = Called([modProp EXCEPT !.event = evt], "setEvent", FALSE)
    /\ UnchangedByModProp

\* ModProp.createHandle(parent), called once when the main window is built
ModProp_createHandle ==
    /\ modProp.handle = "None"
    /\ modProp' = Called([modProp EXCEPT !.handle = modProp.type,
                                         !.bound = modProp.event],
                         "createHandle", FALSE)
    /\ UnchangedByModProp

\* ModProp.setValue(val): the checks, the assignment and the widget call
ModProp_setValue ==
    /\ \E val \in PyValues :
          LET r == setValue(modProp, val)
          IN  modProp' = [modProp EXCEPT
                             !.value = r.value,
                             !.call = "setValue",
                             !.arg = val,
                             !.same = (val = modProp.value),
                             !.raised = r.raised,
                             !.fired = IF r.raised THEN 0 ELSE handler_calls(modProp)]
    /\ UnchangedByModProp

NextProp ==
    \/ ModProp_setType
    \/ ModProp_setChoices
    \/ ModProp_setInfo
    \/ ModProp_setEvent
    \/ ModProp_createHandle
    \/ ModProp_setValue

SpecProp == Init /\ [][NextProp]_vars

\* the constraint of the type of property p on its value
FitsType(p) ==
    /\ p.type = "choice" =>
          p.value.k = "int" /\ p.value.v >= 0 /\ p.value.v < p.choices
    /\ p.type = "spin" /\ p.info.s = "tuple" =>
          p.value.k = "int" /\ p.value.v >= p.info.lo /\ p.value.v <= p.info.hi
    /\ p.type \in {"checkbox", "toggle"} => p.value \in {PyInt(0), PyInt(1)}

\* C21: after any sequence of setType, setInfo, setChoices and setValue calls,
\* whenever the last call was a setValue that did not raise, the stored value
\* satisfies the constraint of the current type (choice index within the
\* choices, spin value within its (min, max) info, checkbox/toggle 0 or 1)
C21_ValueFitsType ==
    modProp.call = "setValue" /\ ~modProp.raised => FitsType(modProp)

\* C23: a setValue(v) that is accepted while the stored value is v leaves
\* the stored value v and makes no call of the event handler
C23_SetSameValueIdempotent ==
    modProp.call = "setValue" /\ ~modProp.raised /\ modProp.same =>
        /\ modProp.value = modProp.arg
        /\ modProp.fired = 0

\* the text "7" is set again in an input whose handler is bound
C23_Witness ==
    /\ modProp.call = "setValue" /\ ~modProp.raised /\ modProp.same
    /\ modProp.handle = "input" /\ modProp.bound
    /\ modProp.value = PyStr("7")

\* ------------------------------------------------------------------------
\* One FSRSModule object: its properties' labels and the lookup by label
\* (specification SpecLabels)
\* ------------------------------------------------------------------------

\* the first property whose label contains the label asked for, whatever the
\* case of the letters; 0 when there is none
first_match(labels, label) ==
    LET hits == {i \in 1..Len(labels) : contains(lower(labels[i]), lower(label))}
    IN  IF hits = {} THEN 0
        ELSE CHOOSE i \in hits : \A j \in hits : i <= j

\* the lookup of getPropertyByLabel and hasProperty: the memorised index when
\* the label is a key of propindex, the first match otherwise
lookup(m, label) ==
    IF m.propindex[label] # 0 THEN m.propindex[label]
    ELSE first_match(m.labels, label)

\* what the methods of the module object leave alone
UnchangedByModule ==
    UNCHANGED <<scanThread, running, btnOldLabel, threads, queue, enabled, handleLabel,
                plotWnd, data, bg, typeChoice, stage, refChoice, saved, timepoints, scanPoints, progress, acq,
                calc, modProp, app, grid, motor, nishutter, refWait, axisGoto, axisMoving, shutterWrite, lastCall>>

\* FSRSModule.addProperty(prop) with a property of the given label
FSRSModule_addProperty ==
    /\ Len(mod.labels) < MaxProps
    /\ \E l \in PropLabels :
          mod' = [mod EXCEPT !.labels = Append(mod.labels, l),
                             !.call = "addProperty", !.label = l,
                             !.found = Len(mod.labels) + 1]
    /\ UnchangedByModule

\* ModProp.setLabel(txt) on the i-th property of the module
FSRSModule_setLabel ==
    /\ \E i \in 1..Len(mod.labels) : \E l \in PropLabels \ {mod.labels[i]} :
          mod' = [mod EXCEPT !.labels[i] = l,
                             !.call = "setLabel", !.label = l, !.found = i]
    /\ UnchangedByModule

\* FSRSModule.getPropertyByLabel(label): found 0 stands for the ValueError
FSRSModule_getPropertyByLabel ==
    /\ \E label \in Queries :
          LET i == lookup(mod, label)
          IN  mod' = [mod EXCEPT !.propindex[label] = i,
                                 !.call = "getPropertyByLabel", !.label = label,
                                 !.found = i]
    /\ UnchangedByModule

\* FSRSModule.hasProperty(label): found 0 stands for False, the others for True
FSRSModule_hasProperty ==
    /\ \E label \in Queries :
          LET i == lookup(mod, label)
          IN  mod' = [mod EXCEPT !.propindex[label] = i,
                                 !.call = "hasProperty", !.label = label,
                                 !.found = i]
    /\ UnchangedByModule

NextLabels ==
    \/ FSRSModule_addProperty
    \/ FSRSModule_setLabel
    \/ FSRSModule_getPropertyByLabel
    \/ FSRSModule_hasProperty

SpecLabels == Init /\ [][NextLabels]_vars

\* C22: after any sequence of addProperty, setLabel and lookups,
\* getPropertyByLabel(q) returns the first property whose current label
\* contains q whatever the case, and raises when there is none, as a search
\* without the memorised index does; hasProperty(q) is True exactly when such
\* a property exists
C22_LookupIsFirstMatch ==
    /\ mod.call = "getPropertyByLabel" =>
          mod.found = first_match(mod.labels, mod.label)
    /\ mod.call = "hasProperty" =>
          (mod.found # 0) = (first_match(mod.labels, mod.label) # 0)

\* ------------------------------------------------------------------------
\* Claims on initialize (specification SpecCalc)
\* ------------------------------------------------------------------------

\* the positions of the modules of others named n
Instances(others, n) == {j \in 1..Len(others) : others[j] = n}

\* C24: initialize returns the number of same-named modules before the
\* module in the list; the k instances of one class get the ordinals
\* 0..k-1, each once, and no two lock-ins get the same hardware address
C24_OrdinalsDistinct ==
    calc.fn = "initialize" =>
        /\ \A me \in 1..Len(calc.others) :
              calc.count[me] =
                 Cardinality({j \in Instances(calc.others, calc.others[me]) : j < me})
        /\ \A n \in ModuleNames :
              /\ {calc.count[j] : j \in Instances(calc.others, n)}
                    = 0..(Cardinality(Instances(calc.others, n)) - 1)
              /\ \A i, j \in Instances(calc.others, n) :
                    calc.count[i] = calc.count[j] => i = j
        /\ \A i, j \in Instances(calc.others, "SR830 Lock-In") :
              calc.adr[i] # 0 /\ calc.adr[i] = calc.adr[j] => i = j

\* two lock-ins with another module between them, and two lock-ins on the bus
C24_Witness ==
    /\ calc.fn = "initialize"
    /\ calc.others = <<"SR830 Lock-In", "Dummy Axis", "SR830 Lock-In">>
    /\ calc.res = <<"GPIB SR830", "GPIB", "GPIB SR830">>
    /\ calc.count = <<0, 0, 1>>
    /\ calc.adr = <<1, 0, 3>>

\* the positions in others of the modules that satisfy Test, in list order
Matching(others, Test(_)) ==
    SelectSeq([i \in 1..Len(others) |-> i], LAMBDA i : Test(ModuleList[others[i]]))

IsInput(m) == m.type = "input"

IsCamera(m) == m.type = "input" /\ m.name = "Dummy Camera"

IsAxis(m) == m.type = "axis"

IsShutter(m) == m.type = "output"

\* the names of the modules at the given positions of others
NamesOf(others, list) == [i \in 1..Len(list) |-> ModuleList[others[list[i]]].name]

\* C25: after FSRSScan2.initialize(others), called once or again, cameras,
\* axes, shutters and inputs hold exactly the matching modules of others in
\* list order, once each; entry i of a choice list is the name of
\* collaborator i ('Take Ref.': "No", then the inputs), and entry 0 is selected
C25_ChoicesNameCollaborators ==
    calc.fn = "FSRSScan2.initialize" =>
        LET o == calc.obj
            others == calc.others
        IN  /\ o.cameras = Matching(others, IsCamera)
            /\ o.axes = Matching(others, IsAxis)
            /\ o.shutters = Matching(others, IsShutter)
            /\ o.inputs = Matching(others, IsInput)
            /\ o.ccdchoices = NamesOf(others, o.cameras)
            /\ o.axeschoices = NamesOf(others, o.axes)
            /\ o.shutterchoices = NamesOf(others, o.shutters)
            /\ o.inputchoices = <<"No">> \o NamesOf(others, o.inputs)
            /\ \A v \in 1..Len(o.inputs) :
                  o.inputchoices[v + 1] = ModuleList[others[o.inputs[v]]].name
            /\ o.camera = 0 /\ o.axis = 0 /\ o.shutter = 0 /\ o.ref = 0

\* initialize has run twice, the second time with the sensor before the camera
C25_Witness ==
    /\ calc.fn = "FSRSScan2.initialize"
    /\ calc.calls = 2
    /\ calc.others = <<4, 3>>
    /\ calc.obj.inputs = <<1, 2>>
    /\ calc.obj.cameras = <<2>>
    /\ calc.obj.inputchoices = <<"No", "Dummy Sensor", "Dummy Camera">>
    /\ calc.obj.ccdchoices = <<"Dummy Camera">>

\* ------------------------------------------------------------------------
\* Claims on PIXIS100.readNframes (specification SpecCalc)
\* ------------------------------------------------------------------------

\* the driver calls made by the last readNframes
CallsMade == 1..calc.result.calls

\* the user stopped the scan before or during one of these calls
Cancelled == calc.cancelFrom <= calc.result.calls

\* the driver calls that delivered all N + 20 frames
FullReads == {a \in CallsMade : calc.reads[a] >= calc.N + Settle}

\* C26: readNframes returns after at most 5 calls of the driver's frame read
C26_AtMostFiveReads ==
    calc.fn = "readNframes" => calc.result.calls <= 5

\* C27: readNframes returns the all-ones triple only if it was cancelled or
\* no attempt gave a full frame of at least N + 20 frames; when an attempt
\* gives a full frame and the call is not cancelled, it returns the data of
\* that frame without its first 20 frames
C27_OnesOnlyWithoutFrame ==
    calc.fn = "readNframes" =>
        /\ calc.result.kind = "ones" => Cancelled \/ FullReads = {}
        /\ FullReads # {} /\ ~Cancelled =>
              /\ calc.result.kind = "data"
              /\ calc.result.attempt \in FullReads
              /\ calc.result.A \cup calc.result.B
                    = (Settle + 1)..calc.reads[calc.result.attempt]

\* ------------------------------------------------------------------------
\* Claim on the startup (specification SpecCalc)
\* ------------------------------------------------------------------------

\* C28: if the initialize of one module raises, initialize is still invoked
\* on every other module and the controller completes its startup
C28_StartupSurvivesRaise ==
    calc.fn = "initializeModules" =>
        /\ \A m \in 1..Len(ModuleList) :
              \E i \in 1..Len(calc.result.invoked) : calc.result.invoked[i] = m
        /\ calc.result.completed

\* ------------------------------------------------------------------------
\* Closing the main window while DAQ Stats is used (specification SpecQuit)
\* ------------------------------------------------------------------------

\* the experiment that is started in this specification
StatExp == CHOOSE e \in Exps : IsDAQStats(e)

\* self.scanThread of experiment e as canQuit sees it: no handle, a thread
\* that is alive, or a thread that has left run()
ScanState(e) ==
    IF scanThread[e] = 0 THEN "none"
    ELSE IF is_alive(threads[e][scanThread[e]]) THEN "alive"
    ELSE "dead"

\* FSRSModule.canQuit of the devices, Experiment.canQuit of an experiment
\* whose thread is not alive: True without a handle, False with one
canQuit(m) ==
    IF ModuleList[m].type = "experiment" THEN ScanState(m) = "none" ELSE TRUE

\* pyFSRS.onExitApp: 'm.shutdown' names the hook of every module without
\* calling it, then the window is destroyed
onExitApp(a) == [a EXCEPT !.destroyed = TRUE]

\* what closing the window leaves alone
UnchangedByQuit ==
    UNCHANGED <<scanThread, running, btnOldLabel, queue, enabled, handleLabel,
                plotWnd, data, bg, typeChoice, stage, refChoice, saved, timepoints, scanPoints, progress, acq,
                calc, modProp, mod, grid, motor, nishutter, refWait, axisGoto, axisMoving, shutterWrite, lastCall>>

\* pyFSRS.onQuit(event): the window is closed by the user (the event can be
\* vetoed) or by the system. Every module is asked canQuit; DAQ Stats, the
\* only experiment with a thread here, asks the user when its thread is
\* alive and on 'yes' stops the thread and waits for it (onQuit_joined)
pyFSRS_onQuit ==
    /\ ~app.destroyed
    /\ app.joining = 0
    /\ \A e \in Exps \ {StatExp} : scanThread[e] = 0
    /\ \E canVeto \in BOOLEAN, answer \in {"yes", "no"} :
          LET scan == ScanState(StatExp)
              asked == [app EXCEPT !.call = "onQuit", !.scan = scan, !.answer = "-",
                                   !.result = "-", !.joined = FALSE, !.vetoed = FALSE]
          IN  IF ~canVeto
              THEN /\ app' = onExitApp([asked EXCEPT !.scan = "-"])
                   /\ UNCHANGED threads
              ELSE IF scan = "alive" /\ answer = "yes"
              THEN /\ app' = [asked EXCEPT !.answer = "yes", !.joining = StatExp]
                   /\ threads' = [threads EXCEPT ![StatExp][scanThread[StatExp]].canQuit = TRUE]
              ELSE IF scan = "alive"
              THEN /\ app' = [asked EXCEPT !.answer = "no", !.result = "None",
                                           !.vetoed = TRUE]
                   /\ UNCHANGED threads
              ELSE IF \E m \in 1..Len(ModuleList) : ~canQuit(m)
              THEN /\ app' = [asked EXCEPT !.result = "False", !.vetoed = TRUE]
                   /\ UNCHANGED threads
              ELSE /\ app' = onExitApp([asked EXCEPT !.result = "True"])
                   /\ UNCHANGED threads
    /\ UnchangedByQuit

\* the thread onQuit waits for has left run(): canQuit returns True, no
\* module vetoes, onExitApp
pyFSRS_onQuit_joined ==
    /\ app.joining # 0
    /\ LET e == app.joining
           k == scanThread[e]
       IN  /\ threads[e][k].pc = "end" \/ ~is_alive(threads[e][k])
           /\ threads' = IF is_alive(threads[e][k])
                         THEN [threads EXCEPT ![e][k] = Exited(@)] ELSE threads
           /\ app' = onExitApp([app EXCEPT !.result = "True", !.joined = TRUE,
                                            !.joining = 0])
    /\ UnchangedByQuit

\* the main loop handles events while the window exists and no handler is
\* waiting for a thread
MainLoopRuns == ~app.destroyed /\ app.joining = 0

NextQuit ==
    \/ MainLoopRuns /\ PressStart(StatExp)
    \/ MainLoopRuns /\ DispatchStarted
    \/ MainLoopRuns /\ DispatchUpdate
    \/ MainLoopRuns /\ DispatchFinished
    \/ pyFSRS_onQuit
    \/ pyFSRS_onQuit_joined
    \/ \E k \in ThreadIds(StatExp) : DAQStatThread_started(StatExp, k)
    \/ \E k \in ThreadIds(StatExp) : DAQStatThread_loop(StatExp, k)
    \/ \E k \in ThreadIds(StatExp) : DAQStatThread_read(StatExp, k)
    \/ \E k \in ThreadIds(StatExp) : DAQStatThread_finish(StatExp, k)
    \/ \E k \in ThreadIds(StatExp) : Thread_exit(StatExp, k)

SpecQuit == Init /\ [][NextQuit]_vars

\* C29: when the main window is destroyed, the shutdown hook of every loaded
\* module has been invoked exactly once, and no scan thread is alive any more
C29_ShutdownBeforeDestroy ==
    app.destroyed =>
        /\ \A m \in 1..Len(ModuleList) :
              Cardinality({i \in 1..Len(app.shutdown) : app.shutdown[i] = m}) = 1
        /\ \A e \in Exps : ScanState(e) # "alive"

\* C30: canQuit returns True whenever no scan thread is alive (no handle, or
\* a thread that has left run()); with a thread alive it returns True only
\* if the user confirms, and then the thread has been stopped and joined;
\* the close is vetoed only while a scan is alive and the user declines
C30_CanQuitUnlessAlive ==
    /\ app.result # "-" =>
          /\ app.scan \in {"none", "dead"} => app.result = "True"
          /\ app.scan = "alive" =>
                /\ (app.result = "True") = (app.answer = "yes")
                /\ app.result = "True" =>
                      app.joined /\ threads[StatExp][scanThread[StatExp]].canQuit
    /\ app.vetoed => app.scan = "alive" /\ app.answer = "no"

\* ------------------------------------------------------------------------
\* Claim on the loading of module files (specification SpecCalc)
\* ------------------------------------------------------------------------

MaxIter == 2

\* number of points of the grid of one iteration (prepareGridPoints)
GridPoints == 2

\* the variables of the experiments, the functions and the objects above
ProgramVars ==
    <<scanThread, running, btnOldLabel, threads, queue, enabled, handleLabel,
      plotWnd, data, bg, typeChoice, stage, refChoice, saved, timepoints, scanPoints, progress, acq,
      calc, modProp, mod, app, refWait, axisGoto, axisMoving, shutterWrite, lastCall>>

\* what the grid search leaves alone
UnchangedByGrid == UNCHANGED <<ProgramVars, motor, nishutter>>

\* the condition of the wait loop as 'a or b and c' groups: a or (b and c)
still_waiting(g) == g.moving[1] \/ (g.moving[2] /\ ~g.canQuit)

\* Experiment.start(GridSearchThread, ..., maxiter = ...): the thread object
GridSearchThread_start ==
    /\ grid.pc = "none"
    /\ \E maxiter \in 1..MaxIter :
          grid' = [grid EXCEPT !.pc = "run", !.maxiter = maxiter]
    /\ UnchangedByGrid

\* ExperimentThread.stop(): self.canQuit.set()
GridSearchThread_stop ==
    /\ grid.pc \notin {"none", "end", "raised"}
    /\ ~grid.canQuit
    /\ grid' = [grid EXCEPT !.canQuit = TRUE]
    /\ UnchangedByGrid

\* wx.CallAfter(self.parent.onStarted); self.cpoint = 0; self.cset = 0
GridSearchThread_started ==
    /\ grid.pc = "run"
    /\ grid' = [grid EXCEPT !.pc = "outer", !.cpoint = 0, !.cset = 0]
    /\ UnchangedByGrid

\* while(self.cset < self.maxiter): the grid of the iteration, fog = [],
\* self.cpoint = 0
GridSearchThread_outer ==
    /\ grid.pc = "outer"
    /\ grid' = IF grid.cset < grid.maxiter
               THEN [grid EXCEPT !.pc = "inner", !.fog = 0, !.cpoint = 0]
               ELSE [grid EXCEPT !.pc = "home"]
    /\ UnchangedByGrid

\* while(self.canQuit.isSet() == 0 and self.cpoint < np.shape(orderedgrid)[0]):
\* valve1.goto(...); valve2.goto(...), after which a valve may be moving
GridSearchThread_inner ==
    /\ grid.pc = "inner"
    /\ IF ~grid.canQuit /\ grid.cpoint < GridPoints
       THEN \E m1, m2 \in BOOLEAN :
               grid' = [grid EXCEPT !.pc = "wait", !.moving = <<m1, m2>>]
       ELSE grid' = [grid EXCEPT !.pc = "sort"]
    /\ UnchangedByGrid

\* while self.valve1.is_moving() or self.valve2.is_moving() and
\* self.canQuit.isSet() == 0: time.sleep(0.01)
GridSearchThread_wait ==
    /\ grid.pc = "wait"
    /\ ~still_waiting(grid)
    /\ grid' = [grid EXCEPT !.pc = "read"]
    /\ UnchangedByGrid

\* val = self.daq.read(...); wx.CallAfter(self.parent.onUpdate, ...);
\* fog = np.vstack(...); self.cpoint += 1
GridSearchThread_read ==
    /\ grid.pc = "read"
    /\ grid' = [grid EXCEPT !.pc = "inner", !.fog = @ + 1, !.cpoint = @ + 1,
                            !.updates = @ + 1, !.late = @ \/ grid.canQuit]
    /\ UnchangedByGrid

\* gfog = fog[fog[:,-1].argsort()]; ftemp = gfog[0,-1], an IndexError when
\* fog has no row; then the domain is reduced or the search breaks off.
\* The first iteration compares with fmin = Inf and never breaks off
GridSearchThread_sort ==
    /\ grid.pc = "sort"
    /\ IF grid.fog = 0
       THEN grid' = [grid EXCEPT !.pc = "raised"]
       ELSE \/ grid' = [grid EXCEPT !.pc = "outer", !.cset = @ + 1]
            \/ grid.cset > 0 /\ grid' = [grid EXCEPT !.pc = "home"]
    /\ UnchangedByGrid

\* self.valve1.goto(0); self.valve2.goto(0);
\* wx.CallAfter(self.parent.onFinished, coordlist)
GridSearchThread_home ==
    /\ grid.pc = "home"
    /\ \E m1, m2 \in BOOLEAN :
          grid' = [grid EXCEPT !.pc = "end", !.moving = <<m1, m2>>,
                               !.finished = @ + 1]
    /\ UnchangedByGrid

\* valve v reaches its position
ValveSettle(v) ==
    /\ grid.moving[v]
    /\ grid' = [grid EXCEPT !.moving[v] = FALSE]
    /\ UnchangedByGrid

NextGrid ==
    \/ GridSearchThread_start
    \/ GridSearchThread_stop
    \/ GridSearchThread_started
    \/ GridSearchThread_outer
    \/ GridSearchThread_inner
    \/ GridSearchThread_wait
    \/ GridSearchThread_read
    \/ GridSearchThread_sort
    \/ GridSearchThread_home
    \/ \E v \in 1..2 : ValveSettle(v)

SpecGrid == Init /\ [][NextGrid]_vars

\* C32: once stop() was called on a running GridSearchThread it takes no
\* further measurement, it can leave the wait loop whatever the valves
\* report, and a thread that came to its end, cancelled or not, has posted
\* onFinished exactly once
C32_StopEndsGridSearch ==
    /\ ~grid.late
    /\ (grid.pc = "wait" /\ grid.canQuit) => ENABLED GridSearchThread_wait
    /\ grid.pc \in {"end", "raised"} => grid.finished = 1
    /\ grid.finished <= 1

\* ------------------------------------------------------------------------
\* Claims on the DAQScan scan thread (specification Spec)
\* ------------------------------------------------------------------------

\* C33: every value a DAQScan scan thread has posted with onUpdate was read
\* after the thread saw is_moving() return False for the point it had moved
\* to; in particular a stop while the axis moves yields no further value
C33_ScanReadsAfterAxisStopped ==
    \A e \in Exps : IsDAQScan(e) =>
        \A k \in ThreadIds(e) : ~threads[e][k].blind

\* ------------------------------------------------------------------------
\* NIStepper: one motor and its move threads
\* ------------------------------------------------------------------------

\* largest number of goto calls in one behaviour
MaxGotos == 2

\* the step counter is followed within -MaxStep..MaxStep
MaxStep == 2

\* the positions handed to goto, in units of 1/PosDen step
MotorTargets == {-PosDen, 1, PosDen, 2 * PosDen}

\* what the stepper leaves alone
UnchangedByStepper == UNCHANGED <<ProgramVars, grid, nishutter>>

\* int(x) of a float x = n/PosDen, as n'/PosDen: the fraction is cut off
int_of(n) == IF n >= 0 THEN (n \div PosDen) * PosDen ELSE -(((-n) \div PosDen) * PosDen)

\* the motor with the history of whether the counter has met the target
noted(m) == [m EXCEPT !.reached = @ \/ m.cstep * PosDen = m.target]

\* NIstepperThread.__init__: canQuit cleared; dir and tmp are locals of run()
NIstepperThread_init == [pc |-> "start", canQuit |-> FALSE, dir |-> 0, tmp |-> 0]

\* threading.Thread.is_alive() of the k-th move thread
thrd_is_alive(k) == motor.threads[k].pc # "exited"

\* NIStepper.goto(pos): the target is set, a new thread is created, stored
\* in mtr["thrd"] and started, the button shows 'Stop'
NIStepper_goto ==
    /\ Len(motor.threads) < MaxGotos
    /\ \E pos \in MotorTargets :
          motor' = [motor EXCEPT !.target = pos,
                                 !.threads = Append(@, NIstepperThread_init),
                                 !.thrd = Len(motor.threads) + 1,
                                 !.movement = "Stop",
                                 !.reached = (motor.cstep * PosDen = pos),
                                 !.again = @ \/ (motor.thrd # 0 /\ thrd_is_alive(motor.thrd))]
    /\ UnchangedByStepper

\* NIStepper.stop(): if mtr["thrd"].is_alive(): mtr["thrd"].stop()
NIStepper_stop ==
    /\ motor.thrd # 0
    /\ thrd_is_alive(motor.thrd)
    /\ ~motor.threads[motor.thrd].canQuit
    /\ motor' = [motor EXCEPT !.threads[motor.thrd].canQuit = TRUE, !.stopped = TRUE]
    /\ UnchangedByStepper

\* NIStepper.onMotorStopped(mtr), called by the main loop: the thread in
\* mtr["thrd"] is joined and the entry reset, the button shows 'Start'
NIStepper_onMotorStopped ==
    /\ motor.calls > 0
    /\ motor.thrd # 0 => ~thrd_is_alive(motor.thrd)
    /\ motor' = [motor EXCEPT !.calls = @ - 1, !.thrd = 0, !.movement = "Start"]
    /\ UnchangedByStepper

\* run(): self.motor["moving"] = True
NIstepperThread_moving(k) ==
    /\ motor.threads[k].pc = "start"
    /\ motor' = [motor EXCEPT !.moving = TRUE, !.threads[k].pc = "target"]
    /\ UnchangedByStepper

\* run(): the right side of self.motor["target"] = int(self.motor["target"])
NIstepperThread_target(k) ==
    /\ motor.threads[k].pc = "target"
    /\ motor' = [motor EXCEPT !.threads[k].tmp = int_of(motor.target),
                              !.threads[k].pc = "int"]
    /\ UnchangedByStepper

\* run(): the assignment to self.motor["target"]
NIstepperThread_int(k) ==
    /\ motor.threads[k].pc = "int"
    /\ motor' = noted([motor EXCEPT !.target = motor.threads[k].tmp,
                                    !.threads[k].pc = "dir"])
    /\ UnchangedByStepper

\* run(): cpos = getCurrentStep(); dir = 1 if self.motor["target"] > cpos else -1
NIstepperThread_dir(k) ==
    /\ motor.threads[k].pc = "dir"
    /\ motor' = [motor EXCEPT
                    !.threads[k].dir = IF motor.target > motor.cstep * PosDen THEN 1 ELSE -1,
                    !.threads[k].pc = "loop"]
    /\ UnchangedByStepper

\* run(): while(self.canQuit.isSet() == 0 and getCurrentStep() != target)
NIstepperThread_loop(k) ==
    LET t == motor.threads[k] IN
    /\ t.pc = "loop"
    /\ motor' = [motor EXCEPT !.threads[k].pc =
                    IF ~t.canQuit /\ motor.cstep * PosDen # motor.target
                    THEN "step" ELSE "off"]
    /\ UnchangedByStepper

\* StepSeq.getNextStep(dir): the right side of self.cstep = self.cstep + 1
\* if dir > 0 else self.cstep - 1
NIstepperThread_step(k) ==
    LET t == motor.threads[k] IN
    /\ t.pc = "step"
    /\ motor' = [motor EXCEPT
                    !.threads[k].tmp = IF t.dir > 0 THEN motor.cstep + 1 ELSE motor.cstep - 1,
                    !.threads[k].pc = "write"]
    /\ UnchangedByStepper

\* StepSeq.getNextStep(dir): the assignment to self.cstep; the pattern is
\* written to the lines and the thread sleeps for the delay
NIstepperThread_write(k) ==
    LET t == motor.threads[k] IN
    /\ t.pc = "write"
    /\ t.tmp \in -MaxStep..MaxStep
    /\ motor' = noted([motor EXCEPT !.cstep = t.tmp, !.threads[k].pc = "loop"])
    /\ UnchangedByStepper

\* run(): holding current off; self.motor["moving"] = False;
\* wx.CallAfter(self.parent.onMotorStopped, self.motor)
NIstepperThread_off(k) ==
    /\ motor.threads[k].pc = "off"
    /\ motor' = [motor EXCEPT !.moving = FALSE, !.calls = @ + 1,
                              !.threads[k].pc = "end"]
    /\ UnchangedByStepper

\* run() returns
NIstepperThread_exit(k) ==
    /\ motor.threads[k].pc = "end"
    /\ motor' = [motor EXCEPT !.threads[k] = [NIstepperThread_init EXCEPT !.pc = "exited"]]
    /\ UnchangedByStepper

\* one statement of the k-th move thread
NIstepperThread_run(k) ==
    \/ NIstepperThread_moving(k)
    \/ NIstepperThread_target(k)
    \/ NIstepperThread_int(k)
    \/ NIstepperThread_dir(k)
    \/ NIstepperThread_loop(k)
    \/ NIstepperThread_step(k)
    \/ NIstepperThread_write(k)
    \/ NIstepperThread_off(k)
    \/ NIstepperThread_exit(k)

NextStepper ==
    \/ NIStepper_goto
    \/ NIStepper_stop
    \/ NIStepper_onMotorStopped
    \/ \E k \in 1..Len(motor.threads) : NIstepperThread_moving(k)
    \/ \E k \in 1..Len(motor.threads) : NIstepperThread_target(k)
    \/ \E k \in 1..Len(motor.threads) : NIstepperThread_int(k)
    \/ \E k \in 1..Len(motor.threads) : NIstepperThread_dir(k)
    \/ \E k \in 1..Len(motor.threads) : NIstepperThread_loop(k)
    \/ \E k \in 1..Len(motor.threads) : NIstepperThread_step(k)
    \/ \E k \in 1..Len(motor.threads) : NIstepperThread_write(k)
    \/ \E k \in 1..Len(motor.threads) : NIstepperThread_off(k)
    \/ \E k \in 1..Len(motor.threads) : NIstepperThread_exit(k)

SpecStepper == Init /\ [][NextStepper]_vars

\* the scheduler runs every started thread, and the main loop every call
\* posted to it
SpecStepperLive ==
    /\ Init
    /\ [][NextStepper]_vars
    /\ \A k \in 1..MaxGotos :
          WF_vars(k \in 1..Len(motor.threads) /\ NIstepperThread_run(k))
    /\ WF_vars(NIStepper_onMotorStopped)

\* C34: from the return of goto(pos) with pos different from the step
\* position, and as long as nobody calls stop(), is_moving() returns True
\* until the step counter has reached the target
C34_MovingUntilTargetReached ==
    (Len(motor.threads) > 0 /\ ~motor.stopped /\ ~motor.reached) => motor.moving

\* the motor has come to rest at the target: no move thread is alive, the
\* step counter equals the target and moving is False
AtRest ==
    /\ \A k \in 1..Len(motor.threads) : ~thrd_is_alive(k)
    /\ motor.cstep * PosDen = motor.target
    /\ ~motor.moving

\* a move thread is about to step out of the range the counter is followed in
OffRange ==
    \E k \in 1..Len(motor.threads) :
        motor.threads[k].pc = "write" /\ motor.threads[k].tmp \notin -MaxStep..MaxStep

\* C35: when goto was called with the move thread of the goto before still
\* alive, then, unless stop() is called (or the motor leaves the range of
\* positions followed), the motor eventually is at rest at the most recent
\* target
C35_SecondGotoComesToRest ==
    motor.again ~> (AtRest \/ motor.stopped \/ OffRange)

\* ------------------------------------------------------------------------
\* DAQScan with the points its controller holds (specification SpecPoints)
\* ------------------------------------------------------------------------

ScanExps == {e \in Exps : IsDAQScan(e)}

\* DAQScan.__init__ leaves self.points to the first onStart; it is followed
InitPoints ==
    /\ InitProgram
    /\ scanPoints = [followed |-> TRUE, points |-> <<>>]

\* the user works with DAQ Scan
NextPoints ==
    \/ \E e \in ScanExps : PressStart(e)
    \/ \E e \in ScanExps : ClosePlot(e)
    \/ DispatchStarted
    \/ DispatchUpdate
    \/ DispatchFinished
    \/ \E e \in ScanExps : \E k \in ThreadIds(e) : DAQScanThread_started(e, k)
    \/ \E e \in ScanExps : \E k \in ThreadIds(e) : DAQScanThread_loop(e, k)
    \/ \E e \in ScanExps : \E k \in ThreadIds(e) : DAQScanThread_goto(e, k)
    \/ \E e \in ScanExps : \E k \in ThreadIds(e) : DAQScanThread_wait(e, k)
    \/ \E e \in ScanExps : \E k \in ThreadIds(e) : DAQScanThread_read(e, k)
    \/ \E e \in ScanExps : \E k \in ThreadIds(e) : DAQScanThread_return(e, k)
    \/ \E e \in ScanExps : \E k \in ThreadIds(e) : DAQScanThread_finish(e, k)
    \/ \E e \in ScanExps : \E k \in ThreadIds(e) : Thread_exit(e, k)
    \/ AxisSettle

SpecPoints == InitPoints /\ [][NextPoints]_vars

\* C38: while a scan thread of DAQScan is alive, self.points of the
\* controller is the sequence of points that thread visits
C38_ControllerHoldsTaskPoints ==
    \A e \in ScanExps : \A k \in ThreadIds(e) :
        is_alive(threads[e][k]) => scanPoints.points = threads[e][k].points

\* ------------------------------------------------------------------------
\* Claims on the progress gauge of FSRSScan2 (specification SpecFSRS)
\* ------------------------------------------------------------------------

\* the updates of experiment e still waiting in the queue
QueuedUpdates(e) == {i \in 1..Len(queue) : queue[i].exp = e /\ queue[i].fn = "onUpdate"}

\* C39: as long as the scan of FSRSScan2 is not cancelled, the values its
\* updates have set the progress gauge to lie within 0..100 and never
\* decrease, and when the thread has posted onFinished and the last update
\* is processed the gauge shows 100
C39_ProgressRisesTo100 ==
    \A e \in FSRSExps : \A k \in ThreadIds(e) :
        LET t == threads[e][k]
            shown == progress.shown
        IN  (scanThread[e] = k /\ ~t.canQuit) =>
                /\ \A i \in 1..Len(shown) : shown[i] \in 0..100
                /\ \A i \in 1..Len(shown) - 1 : shown[i] <= shown[i + 1]
                /\ (t.pc = "end" /\ QueuedUpdates(e) = {} /\ shown # <<>>)
                      => shown[Len(shown)] = 100

\* ------------------------------------------------------------------------
\* Claims on the updates of an FSRSScan2 scan (specification SpecFSRS)
\* ------------------------------------------------------------------------

\* what the k-th scan thread of e has posted with onUpdate, as (grexc, step,
\* set): the updates the main loop has processed, then those in the queue
Posted(e, k) ==
    LET done == SelectSeq(saved, LAMBDA f : f.scan = k)
        waiting == SelectSeq(queue, LAMBDA c : c.fn = "onUpdate" /\ c.exp = e /\ c.val.scan = k)
    IN  [i \in 1..Len(done) |-> done[i].key]
          \o [i \in 1..Len(waiting) |-> <<waiting[i].val.grexc, waiting[i].val.step,
                                          waiting[i].val.set>>]

\* the updates of a whole scan of thread t: per set, for type FSRS, one
\* ground state update, then one update per point in the order of points
ScanUpdates(t) ==
    LET P == Len(t.points)
        n == IF t.type = 0 THEN P + 1 ELSE P
    IN  [j \in 1..(t.sets * n) |->
            LET c == (j - 1) \div n
                r == ((j - 1) % n) + (IF t.type = 0 THEN 0 ELSE 1)
            IN  IF r = 0 THEN <<0, 0, c>> ELSE <<1, t.points[r], c>>]

IsPrefixOf(a, b) == Len(a) <= Len(b) /\ \A i \in 1..Len(a) : a[i] = b[i]

C37_ReferenceIsMean ==
    \A e \in FSRSExps : \A k \in ThreadIds(e) :
        LET t == threads[e][k] IN
        (t.pc = "end" /\ t.reference # 0) =>
            \A i \in 1..Len(t.points) :
                t.taken[i] > 0 => t.reference_data[i] = reference_read(i - 1) * t.divisor

\* ---- NIShutter: eight shutters on the lines of one digital port ----

\* the channels selected, of the 0..7 of the 'Channel' spin control
MaxChannel == 2

ShutterChannels == 0..MaxChannel

\* the lines of the port, one bit of lastState and of slope each
Lines == 0..7

UnchangedByShutter == UNCHANGED <<ProgramVars, grid, motor>>

\* bool(x & (1 << c)) as 0 or 1
bit(x, c) == (x \div (2 ^ c)) % 2

\* x |= (1 << c)
or_mask(x, c) == IF bit(x, c) = 1 THEN x ELSE x + (2 ^ c)

\* x &= ~(1 << c)
and_not_mask(x, c) == IF bit(x, c) = 1 THEN x - (2 ^ c) ELSE x

\* NIShutter.updateToggleButton(): the 'Control' toggle is set to 1 when the
\* bit of the channel in lastState equals its bit in slope, else to 0
updateToggleButton(s) ==
    [s EXCEPT !.control = IF bit(s.lastState, s.channel) = bit(s.slope, s.channel)
                          THEN 1 ELSE 0]

\* a write that builds the new state from the bit mask alone
NIShutter_write_mask_only(s, value) ==
    updateToggleButton(
        [s EXCEPT !.lastState = IF value = bit(s.slope, s.channel)
                                THEN 2 ^ s.channel ELSE 0,
                  !.value = value, !.before = s.lastState])

\* NIShutter.write(value): writeArray = self.lastState with the bit of the
\* channel set when value == slope and cleared otherwise; stored in
\* lastState and sent to the port; updateToggleButton()
NIShutter_write(s, value) ==
    updateToggleButton(
        [s EXCEPT !.lastState = IF value = bit(s.slope, s.channel)
                                THEN or_mask(s.lastState, s.channel)
                                ELSE and_not_mask(s.lastState, s.channel),
                  !.value = value, !.before = s.lastState])

\* the 'Channel' spin control is set to c; NIShutter.onChangeChannel(): the
\* 'Slope' choice shows the slope bit of the channel; updateToggleButton()
NIShutter_onChangeChannel(c) ==
    /\ nishutter' = updateToggleButton(
           [nishutter EXCEPT !.channel = c, !.slopeChoice = bit(nishutter.slope, c),
                             !.call = "onChangeChannel"])
    /\ UnchangedByShutter

\* the 'Slope' choice is set to v; NIShutter.onChangeSlope(): the slope bit
\* of the channel is set or cleared; onToggle(None) writes the value of the
\* 'Control' toggle
NIShutter_onChangeSlope(v) ==
    LET s == [nishutter EXCEPT !.slopeChoice = v,
                  !.slope = IF v # 0 THEN or_mask(@, nishutter.channel)
                            ELSE and_not_mask(@, nishutter.channel),
                  !.call = "onChangeSlope"]
    IN  /\ nishutter' = NIShutter_write(s, s.control)
        /\ UnchangedByShutter

\* the 'Control' toggle is pressed; NIShutter.onToggle(): write(the value
\* of the toggle)
NIShutter_onToggle ==
    LET s == [nishutter EXCEPT !.control = 1 - @, !.call = "onToggle"]
    IN  /\ nishutter' = NIShutter_write(s, s.control)
        /\ UnchangedByShutter

\* shutter.write(0) and shutter.write(1) of a measurement thread
NIShutter_call_write(value) ==
    /\ nishutter' = NIShutter_write([nishutter EXCEPT !.call = "write"], value)
    /\ UnchangedByShutter

NextShutter ==
    \/ \E c \in ShutterChannels : NIShutter_onChangeChannel(c)
    \/ \E v \in {0, 1} : NIShutter_onChangeSlope(v)
    \/ NIShutter_onToggle
    \/ \E value \in {0, 1} : NIShutter_call_write(value)

\* the shutter device alone, under channel changes, slope changes, presses
\* of the toggle and writes
SpecShutter == Init /\ [][NextShutter]_vars

====
